---- MODULE Spec2Model ----
(***************************************************************************)
(* Support / resistance level detection engine of the Trade repository     *)
(* (src/src/level_detector.py, src/src/analyzer.py).                       *)
(*                                                                         *)
(* Prices are exact rationals <<numerator, denominator>> over an integer   *)
(* tick grid; dates are integer day numbers.  Floating-point rounding of   *)
(* the Python code is outside the model: arithmetic is exact.              *)
(***************************************************************************)
EXTENDS Integers, Sequences, FiniteSets, TLC

VARIABLES
    cpc,        \* position of the consolidation harness
    clevels,    \* candidate list handed to _consolidate_levels
    ctol,       \* price_tolerance (ticks) used by the consolidation harness
    cout1,      \* _consolidate_levels(clevels)
    cout2,      \* _consolidate_levels(cout1)
    ppc,        \* position of the pivot harness
    pdf,        \* series handed to _find_pivot_levels
    pw,         \* pivot.left_bars used by the pivot harness
    psup,       \* support candidates returned by _find_pivot_levels
    pres,       \* resistance candidates returned by _find_pivot_levels
    pc,         \* position in analyze_contract
    contract_df,        \* df of analyze_contract: the series of the contract
    config,             \* self.config: the configuration of the analysis
    support_levels,     \* support_levels of analyze_contract (all valid supports)
    resistance_levels,  \* resistance_levels of analyze_contract
    nearest_supports,   \* nearest_supports, as positions in support_levels
    nearest_resistances, \* nearest_resistances, as positions in resistance_levels
    dpc,        \* the detectors of the detector harness that have returned
    ddf,        \* series handed to the detectors
    dconfig,    \* self.detection_config of the detector harness
    volume_levels,      \* volume_levels: the dict _find_volume_levels returned
    fib_supports,       \* fib_supports of find_fibonacci_levels
    fib_resistances,    \* fib_resistances of find_fibonacci_levels
    npc,        \* position of the nearest-level harness
    nlevels,    \* list handed to get_nearest_levels
    ncurrent_price,     \* current_price handed to get_nearest_levels (ticks)
    ncount,     \* count handed to get_nearest_levels
    nnearest,   \* the list get_nearest_levels returned, as positions in nlevels
    volume_profile,     \* volume_profile of _find_volume_levels, as <<bin, volume>> pairs
    score_calls,        \* the calls of calculate_level_strength_score made so far
    kpc,        \* position of the cluster harness
    kdf,        \* series handed to _find_clustered_levels
    ktol,       \* price_tolerance (ticks) used by the cluster harness
    cluster_supports,   \* cluster_supports of _find_clustered_levels
    cluster_resistances,\* cluster_resistances of _find_clustered_levels
    tpc,        \* position of the statistics harness
    tsupports,  \* supports handed to _calculate_statistics
    tresistances,       \* resistances handed to _calculate_statistics
    tcurrent_price,     \* df['Close'].iloc[-1] of the statistics harness (ticks)
    stats,      \* the dict _calculate_statistics returned
    mpc,        \* position of main: index of the next contract of the loop, then
                \* len(contracts) + 1 after the loop and + 2 at the end; 0 when idle
    contracts,  \* contracts of main
    args,       \* the command-line flags main reads after the loop starts
    results_dict,       \* results_dict of main: the contracts that have an entry
    analyzed,   \* the calls of analyze_contract so far, in order: the contract
                \* and whether the call returned
    reported,   \* the contracts whose report was printed
    compared,   \* the comparison chart was produced
    qpc,        \* position of the scorer harness
    qdf,        \* series handed to calculate_level_strength_score
    qlevel,     \* Level handed to calculate_level_strength_score
    qcall,      \* the call of calculate_level_strength_score, once it returned
    apc,        \* position of the object harness
    aheap,      \* the Level objects and touch dicts that exist, by object id
    alevels,    \* the list handed to _consolidate_levels, as object ids
    ainput,     \* aheap, alevels and price_tolerance when the call was made
    aout        \* the list _consolidate_levels returned, as object ids

consVars == <<cpc, clevels, ctol, cout1, cout2>>
pivotVars == <<ppc, pdf, pw, psup, pres>>
pipeVars == <<pc, contract_df, config, support_levels, resistance_levels,
              nearest_supports, nearest_resistances, score_calls>>
detVars == <<dpc, ddf, dconfig, volume_levels, fib_supports, fib_resistances,
             volume_profile>>
nearVars == <<npc, nlevels, ncurrent_price, ncount, nnearest>>
clusVars == <<kpc, kdf, ktol, cluster_supports, cluster_resistances>>
statsVars == <<tpc, tsupports, tresistances, tcurrent_price, stats>>
mainVars == <<mpc, contracts, args, results_dict, analyzed, reported, compared>>
scorerVars == <<qpc, qdf, qlevel, qcall>>
aliasVars == <<apc, aheap, alevels, ainput, aout>>
vars == <<consVars, pivotVars, pipeVars, detVars, nearVars, clusVars, statsVars,
          mainVars, scorerVars, aliasVars>>

----------------------------------------------------------------------------
(* Bounds of the model *)

MaxPrice == 6       \* prices of generated candidates are 1..MaxPrice ticks
MaxCands == 3       \* longest generated candidate list
MaxBars == 4        \* longest generated series
MaxBarPrice == 3    \* Low and High of generated bars are 1..MaxBarPrice ticks
MaxOrder == 2       \* pivot.left_bars ranges over 1..MaxOrder
PipeBars == 5       \* longest series of a full analysis
PriceStep == 4      \* ticks between the price levels of a full analysis
MaxMinTouches == 2  \* min_touches ranges over 1..MaxMinTouches

\* price_tolerance ranges over 1..MaxTol ticks
MaxTol == MaxPrice \div 2

----------------------------------------------------------------------------
(* Exact rational arithmetic *)

RECURSIVE GCD(_, _)
GCD(a, b) == IF b = 0 THEN a ELSE GCD(b, a % b)

Abs(x) == IF x < 0 THEN -x ELSE x

\* the rational n/d (d # 0) in lowest terms with a positive denominator
Rat(n, d) ==
    LET g == GCD(Abs(n), Abs(d))
        s == IF d < 0 THEN -1 ELSE 1
    IN  <<(s * n) \div g, (s * d) \div g>>

RInt(n) == <<n, 1>>
RAdd(a, b) == Rat(a[1] * b[2] + b[1] * a[2], a[2] * b[2])
RSub(a, b) == Rat(a[1] * b[2] - b[1] * a[2], a[2] * b[2])
RMul(a, b) == Rat(a[1] * b[1], a[2] * b[2])
RDiv(a, b) == Rat(a[1] * b[2], a[2] * b[1])
RLe(a, b) == a[1] * b[2] <= b[1] * a[2]
RLt(a, b) == a[1] * b[2] < b[1] * a[2]
RAbs(a) == <<Abs(a[1]), a[2]>>
RMin(a, b) == IF RLe(a, b) THEN a ELSE b
RMax(a, b) == IF RLe(a, b) THEN b ELSE a

RECURSIVE RSum(_)
RSum(s) == IF s = <<>> THEN RInt(0) ELSE RAdd(Head(s), RSum(Tail(s)))

RECURSIVE ISum(_)
ISum(s) == IF s = <<>> THEN 0 ELSE Head(s) + ISum(Tail(s))

----------------------------------------------------------------------------
(* class Level *)

NoDate == -1                \* last_test = None
NoScore == <<0, 0>>         \* the Level has no strength_score attribute

\* Level.__init__(price, level_type, strength=1)
Level(price, level_type, strength) ==
    [price |-> price, type |-> level_type, strength |-> strength,
     touches |-> <<>>, volumes |-> <<>>, last_test |-> NoDate,
     strength_score |-> NoScore]

\* Level.add_touch(date, touch_price)
add_touch(level, date, touch_price) ==
    LET t == Append(level.touches, [date |-> date, price |-> touch_price])
    IN  [level EXCEPT !.touches = t, !.strength = Len(t), !.last_test = date]

\* Level.add_touch(date, touch_price, volume): the three-argument form the
\* detectors call; the touch's volume is kept beside the touch.
add_touch_volume(level, date, touch_price, volume) ==
    LET l == add_touch(level, date, touch_price)
    IN  [l EXCEPT !.volumes = Append(level.volumes, volume)]

----------------------------------------------------------------------------
(* LevelDetector._merge_levels and LevelDetector._consolidate_levels *)

RECURSIVE AddTouches(_, _)
\* "for touch in level.touches: merged.add_touch(touch['date'], touch['price'])"
AddTouches(merged, touches) ==
    IF touches = <<>> THEN merged
    ELSE AddTouches(add_touch(merged, Head(touches).date, Head(touches).price),
                    Tail(touches))

RECURSIVE CombineTouches(_, _)
\* "for level in levels: for touch in level.touches: ..."
CombineTouches(merged, levels) ==
    IF levels = <<>> THEN merged
    ELSE CombineTouches(AddTouches(merged, Head(levels).touches), Tail(levels))

\* sum(l.strength for l in levels)
TotalWeight(levels) == ISum([i \in 1..Len(levels) |-> levels[i].strength])

\* mutant: the plain mean of the member prices
WeightedPriceUnweighted(levels) ==
    RDiv(RSum([i \in 1..Len(levels) |-> levels[i].price]), RInt(Len(levels)))

\* sum(l.price * l.strength for l in levels) / total_weight
WeightedPrice(levels) ==
    RDiv(RSum([i \in 1..Len(levels) |->
                  RMul(levels[i].price, RInt(levels[i].strength))]),
         RInt(TotalWeight(levels)))

_merge_levels(levels, level_type) ==
    CombineTouches(Level(WeightedPrice(levels), level_type, 1), levels)

\* np.mean([l.price for l in current_group])
GroupAvg(group) ==
    RDiv(RSum([i \in 1..Len(group) |-> group[i].price]), RInt(Len(group)))

\* mutant: the candidate is compared with the group's first member
CloseToGroupAnchor(level, group, tol) ==
    RLe(RAbs(RSub(level.price, group[1].price)), RInt(tol))

\* mutant: the tolerance test is strict
CloseToGroupStrict(level, group, tol) ==
    RLt(RAbs(RSub(level.price, GroupAvg(group))), RInt(tol))

\* mutant: the candidate is compared with the weighted price the group
\* would merge to
CloseToGroupWeighted(level, group, tol) ==
    RLe(RAbs(RSub(level.price, WeightedPrice(group))), RInt(tol))

\* "abs(level.price - group_avg) <= self.price_tolerance"
CloseToGroup(level, group, tol) ==
    RLe(RAbs(RSub(level.price, GroupAvg(group))), RInt(tol))

RECURSIVE InsertByPrice(_, _)
\* insertion after every element whose price is <= the new one: a stable sort
InsertByPrice(sorted, level) ==
    IF sorted = <<>> THEN <<level>>
    ELSE IF RLe(Head(sorted).price, level.price)
         THEN <<Head(sorted)>> \o InsertByPrice(Tail(sorted), level)
         ELSE <<level>> \o sorted

RECURSIVE SortedByPrice(_)
\* sorted(levels, key=lambda x: x.price)
SortedByPrice(levels) ==
    IF levels = <<>> THEN <<>>
    ELSE InsertByPrice(SortedByPrice(SubSeq(levels, 1, Len(levels) - 1)),
                       levels[Len(levels)])

RECURSIVE ConsolidateLoopDropsLast(_, _, _, _, _)
\* mutant: the group that is open when the loop ends is not merged
ConsolidateLoopDropsLast(rest, current_group, consolidated, level_type, tol) ==
    IF rest = <<>>
    THEN consolidated
    ELSE IF CloseToGroup(Head(rest), current_group, tol)
         THEN ConsolidateLoopDropsLast(Tail(rest), Append(current_group, Head(rest)),
                                       consolidated, level_type, tol)
         ELSE ConsolidateLoopDropsLast(Tail(rest), <<Head(rest)>>,
                                       Append(consolidated,
                                              _merge_levels(current_group, level_type)),
                                       level_type, tol)

RECURSIVE ConsolidateLoop(_, _, _, _, _)
\* the loop "for level in sorted_levels[1:]" and the final group
ConsolidateLoop(rest, current_group, consolidated, level_type, tol) ==
    IF rest = <<>>
    THEN Append(consolidated, _merge_levels(current_group, level_type))
    ELSE IF CloseToGroup(Head(rest), current_group, tol)
         THEN ConsolidateLoop(Tail(rest), Append(current_group, Head(rest)),
                              consolidated, level_type, tol)
         ELSE ConsolidateLoop(Tail(rest), <<Head(rest)>>,
                              Append(consolidated,
                                     _merge_levels(current_group, level_type)),
                              level_type, tol)

_consolidate_levels(levels, level_type, tol) ==
    IF levels = <<>> THEN <<>>
    ELSE LET sorted_levels == SortedByPrice(levels)
         IN  ConsolidateLoop(Tail(sorted_levels), <<Head(sorted_levels)>>,
                             <<>>, level_type, tol)

----------------------------------------------------------------------------
(* The series: a sequence of bars [Low, High, Close, Volume, date], indexed  *)
(* from 1 (bar i of the model is row i - 1 of the DataFrame)                 *)

Column(df, name) == [i \in 1..Len(df) |-> df[i][name]]

----------------------------------------------------------------------------
(* scipy.signal.argrelextrema(data, comparator, order), mode='clip'        *)

\* data.take(locs + shift, mode='clip'): indices outside the array are
\* clipped to its first or last element
Clip(j, n) == IF j < 1 THEN 1 ELSE IF j > n THEN n ELSE j

\* mutant: np.less instead of np.less_equal
LocalMinIndicesStrict(data, order) ==
    { i \in 1..Len(data) :
        \A shift \in 1..order :
            /\ data[i] < data[Clip(i + shift, Len(data))]
            /\ data[i] < data[Clip(i - shift, Len(data))] }

\* argrelextrema(df['Low'].values, np.less_equal, order)[0]
LocalMinIndices(data, order) ==
    { i \in 1..Len(data) :
        \A shift \in 1..order :
            /\ data[i] <= data[Clip(i + shift, Len(data))]
            /\ data[i] <= data[Clip(i - shift, Len(data))] }

\* argrelextrema(df['High'].values, np.greater_equal, order)[0]
LocalMaxIndices(data, order) ==
    { i \in 1..Len(data) :
        \A shift \in 1..order :
            /\ data[i] >= data[Clip(i + shift, Len(data))]
            /\ data[i] >= data[Clip(i - shift, Len(data))] }

----------------------------------------------------------------------------
(* LevelDetector._find_pivot_levels *)

RECURSIVE SetToSortedSeq(_)
\* the indices of a set in ascending order, as argrelextrema returns them
SetToSortedSeq(S) ==
    IF S = {} THEN <<>>
    ELSE LET m == CHOOSE x \in S : \A y \in S : x <= y
         IN  <<m>> \o SetToSortedSeq(S \ {m})

\* "level = Level(price, 'support'); level.add_touch(date, price, volume)"
PivotLevel(df, idx, column, level_type) ==
    add_touch_volume(Level(RInt(df[idx][column]), level_type, 1),
                     df[idx].date, RInt(df[idx][column]), df[idx].Volume)

PivotSupports(df, order) ==
    LET idxs == SetToSortedSeq(LocalMinIndices(Column(df, "Low"), order))
    IN  [k \in 1..Len(idxs) |-> PivotLevel(df, idxs[k], "Low", "support")]

PivotResistances(df, order) ==
    LET idxs == SetToSortedSeq(LocalMaxIndices(Column(df, "High"), order))
    IN  [k \in 1..Len(idxs) |-> PivotLevel(df, idxs[k], "High", "resistance")]

----------------------------------------------------------------------------
(* Helpers on the series and on rationals used by the remaining detectors *)

RFloor(a) == a[1] \div a[2]

\* round(x) of Python and numpy: to the nearest integer, a tie to the even one
RoundHalfEven(a) ==
    LET f == RFloor(a)
        twice == RMul(RSub(a, RInt(f)), RInt(2))
    IN  IF RLt(twice, RInt(1)) THEN f
        ELSE IF RLt(RInt(1), twice) THEN f + 1
        ELSE IF f % 2 = 0 THEN f ELSE f + 1

RECURSIVE SeqMax(_)
SeqMax(s) ==
    IF Len(s) = 1 THEN s[1]
    ELSE LET m == SeqMax(Tail(s)) IN IF s[1] >= m THEN s[1] ELSE m

RECURSIVE SeqMin(_)
SeqMin(s) ==
    IF Len(s) = 1 THEN s[1]
    ELSE LET m == SeqMin(Tail(s)) IN IF s[1] <= m THEN s[1] ELSE m

\* df['High'].max() - df['Low'].min()
PriceRange(df) == SeqMax(Column(df, "High")) - SeqMin(Column(df, "Low"))

\* df['Close'].iloc[-1]
LastClose(df) == df[Len(df)].Close

\* round(price / bin_size) * bin_size
BinKey(price, bin_size) ==
    RMul(RInt(RoundHalfEven(RDiv(price, bin_size))), bin_size)

\* dict.get(key, default) on a configuration section kept as a record
Get(dict, key, default) == IF key \in DOMAIN dict THEN dict[key] ELSE default

\* position of a key in an insertion-ordered dict kept as a sequence of
\* <<key, value>> pairs; 0 when the key is absent
KeyIndex(dict, key) ==
    IF \E k \in 1..Len(dict) : dict[k][1] = key
    THEN CHOOSE k \in 1..Len(dict) : dict[k][1] = key
    ELSE 0

----------------------------------------------------------------------------
(* LevelDetector._find_clustered_levels *)

\* the divisor of the adaptive bin: price_range / 100
ClusterRangeDivisor == 100

\* a bin becomes a level when it holds at least this many touches
ClusterMinTouches == 2

\* bin_size = max(self.price_tolerance, price_range / 100)
ClusterBinSize(df, tol) ==
    RMax(RInt(tol), RDiv(RInt(PriceRange(df)), RInt(ClusterRangeDivisor)))

RECURSIVE FillBins(_, _, _, _, _)
\* "for idx, row in df.iterrows(): bins[bin_key].append((idx, row[column], vol))"
FillBins(df, i, column, bin_size, bins) ==
    IF i > Len(df) THEN bins
    ELSE LET key == BinKey(RInt(df[i][column]), bin_size)
             touch == <<df[i].date, RInt(df[i][column]), df[i].Volume>>
             k == KeyIndex(bins, key)
         IN  FillBins(df, i + 1, column, bin_size,
                      IF k = 0 THEN Append(bins, <<key, <<touch>>>>)
                      ELSE [bins EXCEPT ![k] = <<key, Append(bins[k][2], touch)>>])

RECURSIVE AddBinTouches(_, _)
\* "for date, touch_price, vol in touches: level.add_touch(date, touch_price, vol)"
AddBinTouches(level, touches) ==
    IF touches = <<>> THEN level
    ELSE AddBinTouches(add_touch_volume(level, Head(touches)[1], Head(touches)[2],
                                        Head(touches)[3]),
                       Tail(touches))

RECURSIVE BinLevelsAnyCount(_, _)
\* mutant: every bin becomes a level, whatever the number of its touches
BinLevelsAnyCount(bins, level_type) ==
    IF bins = <<>> THEN <<>>
    ELSE <<AddBinTouches(Level(Head(bins)[1], level_type, 1), Head(bins)[2])>>
         \o BinLevelsAnyCount(Tail(bins), level_type)

RECURSIVE BinLevels(_, _)
\* "for price, touches in bins.items(): if len(touches) >= 2: ..."
BinLevels(bins, level_type) ==
    IF bins = <<>> THEN <<>>
    ELSE LET rest == BinLevels(Tail(bins), level_type)
         IN  IF Len(Head(bins)[2]) >= ClusterMinTouches
             THEN <<AddBinTouches(Level(Head(bins)[1], level_type, 1), Head(bins)[2])>>
                  \o rest
             ELSE rest

ClusterSupports(df, tol) ==
    BinLevels(FillBins(df, 1, "Low", ClusterBinSize(df, tol), <<>>), "support")

ClusterResistances(df, tol) ==
    BinLevels(FillBins(df, 1, "High", ClusterBinSize(df, tol), <<>>), "resistance")

----------------------------------------------------------------------------
(* LevelDetector._find_volume_levels *)

TopVolumeLevels == 10       \* sorted_levels[:min(10, len(sorted_levels))]
VolumeLevelStrength == 2    \* Level(price, side, strength=2)

\* bin_size = price_range / bins
VolumeBinSize(df, bins) == RDiv(RInt(PriceRange(df)), RInt(bins))

\* volume_profile[bin_key] += volume_per_bin
AddVolume(profile, key, volume) ==
    LET k == KeyIndex(profile, key)
    IN  IF k = 0 THEN Append(profile, <<key, volume>>)
        ELSE [profile EXCEPT ![k] = <<key, RAdd(profile[k][2], volume)>>]

RECURSIVE SpreadVolume(_, _, _, _, _)
\* "while current_price <= row['High']: ...; current_price += bin_size"
\* (Len(profile) >= 0 is always true: it makes TLC evaluate the dict of one
\* iteration before the next one starts)
SpreadVolume(profile, current_price, high, bin_size, volume_per_bin) ==
    IF Len(profile) >= 0 /\ RLe(current_price, high)
    THEN SpreadVolume(AddVolume(profile, BinKey(current_price, bin_size), volume_per_bin),
                      RAdd(current_price, bin_size), high, bin_size, volume_per_bin)
    ELSE profile

RECURSIVE VolumeProfile(_, _, _, _)
\* "for idx, row in df.iterrows(): if price_range_day > 0: ..."
VolumeProfile(df, i, bin_size, profile) ==
    IF i > Len(df) THEN profile
    ELSE LET price_range_day == df[i].High - df[i].Low
         IN  IF price_range_day > 0
             THEN LET num_bins_touched ==
                          RFloor(RDiv(RInt(price_range_day), bin_size)) + 1
                      volume_per_bin == Rat(df[i].Volume, num_bins_touched)
                  IN  VolumeProfile(df, i + 1, bin_size,
                          SpreadVolume(profile, RInt(df[i].Low), RInt(df[i].High),
                                       bin_size, volume_per_bin))
             ELSE VolumeProfile(df, i + 1, bin_size, profile)

RECURSIVE InsertByVolumeDesc(_, _)
InsertByVolumeDesc(sorted, item) ==
    IF sorted = <<>> THEN <<item>>
    ELSE IF RLe(item[2], Head(sorted)[2])
         THEN <<Head(sorted)>> \o InsertByVolumeDesc(Tail(sorted), item)
         ELSE <<item>> \o sorted

RECURSIVE InsertByVolumeAsc(_, _)
InsertByVolumeAsc(sorted, item) ==
    IF sorted = <<>> THEN <<item>>
    ELSE IF RLe(Head(sorted)[2], item[2])
         THEN <<Head(sorted)>> \o InsertByVolumeAsc(Tail(sorted), item)
         ELSE <<item>> \o sorted

RECURSIVE SortedByVolumeAsc(_)
\* mutant: the sort without reverse=True, lowest volume first
SortedByVolumeAsc(items) ==
    IF items = <<>> THEN <<>>
    ELSE InsertByVolumeAsc(SortedByVolumeAsc(SubSeq(items, 1, Len(items) - 1)),
                           items[Len(items)])

RECURSIVE SortedByVolumeDesc(_)
\* sorted(volume_profile.items(), key=lambda x: x[1], reverse=True)
SortedByVolumeDesc(items) ==
    IF items = <<>> THEN <<>>
    ELSE InsertByVolumeDesc(SortedByVolumeDesc(SubSeq(items, 1, Len(items) - 1)),
                            items[Len(items)])

\* the top bins, highest volume first
TopVolumeBins(df, bins) ==
    LET sorted_levels ==
            SortedByVolumeDesc(VolumeProfile(df, 1, VolumeBinSize(df, bins), <<>>))
    IN  SubSeq(sorted_levels, 1,
               IF Len(sorted_levels) < TopVolumeLevels THEN Len(sorted_levels)
               ELSE TopVolumeLevels)

\* mutant: a bin priced at the current price is a support
VolumeIsSupportInclusive(price, df) == RLe(price, RInt(LastClose(df)))

\* "if price < current_price" of the classification loop
VolumeIsSupport(price, df) == RLt(price, RInt(LastClose(df)))

\* mutant: the 'enabled' flag of the section is not looked at
VolumeSideAlwaysOn(df, enabled, bins, level_type) ==
    LET top == TopVolumeBins(df, bins)
        want(item) == VolumeIsSupport(item[1], df) <=> (level_type = "support")
        mine == SelectSeq(top, want)
    IN  [j \in 1..Len(mine) |-> Level(mine[j][1], level_type, VolumeLevelStrength)]

VolumeSide(df, enabled, bins, level_type) ==
    IF ~enabled THEN <<>>
    ELSE LET top == TopVolumeBins(df, bins)
             want(item) == VolumeIsSupport(item[1], df) <=> (level_type = "support")
             mine == SelectSeq(top, want)
         IN  [j \in 1..Len(mine) |-> Level(mine[j][1], level_type, VolumeLevelStrength)]

\* _find_volume_levels(df)['support'], ['resistance']
VolumeSupports(df, enabled, bins) == VolumeSide(df, enabled, bins, "support")
VolumeResistances(df, enabled, bins) == VolumeSide(df, enabled, bins, "resistance")

----------------------------------------------------------------------------
(* LevelDetector.find_fibonacci_levels *)

TicksPerUnit == 2000        \* ticks of the model in one price unit
FibDecimalScale == 10000    \* round(fib_price, 4): 10^4 steps in one price unit

\* mutant: the price is kept as computed, without round(fib_price, 4)
Round4Exact(x) == x

\* round(x, 4): to the nearest multiple of 10^-4 price units
Round4(x) == BinKey(x, Rat(TicksPerUnit, FibDecimalScale))

\* fib_price = round(swing_high - (price_range * ratio), 4)
FibPrice(df, ratio) ==
    Round4(RSub(RInt(SeqMax(Column(df, "High"))), RMul(RInt(PriceRange(df)), ratio)))

RECURSIVE FibTouches(_, _, _, _)
\* "for idx, row in df.iterrows(): if abs(row['Low'] - fib_price) <= tol: ...
\*  elif abs(row['High'] - fib_price) <= tol: ..."
FibTouches(level, df, i, tol) ==
    IF i > Len(df) THEN level
    ELSE IF RLe(RAbs(RSub(RInt(df[i].Low), level.price)), RInt(tol))
         THEN FibTouches(add_touch_volume(level, df[i].date, RInt(df[i].Low),
                                          df[i].Volume), df, i + 1, tol)
         ELSE IF RLe(RAbs(RSub(RInt(df[i].High), level.price)), RInt(tol))
              THEN FibTouches(add_touch_volume(level, df[i].date, RInt(df[i].High),
                                               df[i].Volume), df, i + 1, tol)
              ELSE FibTouches(level, df, i + 1, tol)

\* "'support' if fib_price < current_price else 'resistance'"
FibSideOf(fib_price, current_price) ==
    IF RLt(fib_price, RInt(current_price)) THEN "support" ELSE "resistance"

\* the Level built for one ratio
FibLevel(df, ratio, current_price, tol) ==
    LET fib_price == FibPrice(df, ratio)
        level == [Level(fib_price, FibSideOf(fib_price, current_price), 1)
                     EXCEPT !.strength_score = <<1, 2>>]
    IN  FibTouches(level, df, 1, tol)

RECURSIVE FibSide(_, _, _, _, _)
FibSide(df, ratios, current_price, tol, level_type) ==
    IF ratios = <<>> THEN <<>>
    ELSE LET level == FibLevel(df, Head(ratios), current_price, tol)
             rest == FibSide(df, Tail(ratios), current_price, tol, level_type)
         IN  IF level.type = level_type THEN <<level>> \o rest ELSE rest

\* find_fibonacci_levels(df, current_price)[0] and [1]
find_fibonacci_levels(df, current_price, fib, tol, level_type) ==
    IF ~Get(fib, "enabled", FALSE) THEN <<>>
    ELSE IF PriceRange(df) <= 0 THEN <<>>
    ELSE FibSide(df, fib.levels, current_price, tol, level_type)

----------------------------------------------------------------------------
(* LevelDetector.find_support_resistance *)

\* all_supports / all_resistances: the pooled candidates of the four detectors
PooledCandidates(df, cfg, level_type) ==
    IF level_type = "support"
    THEN PivotSupports(df, cfg.pivot_left)
         \o ClusterSupports(df, cfg.price_tolerance)
         \o VolumeSupports(df, cfg.vp_enabled, cfg.vp_bins)
         \o find_fibonacci_levels(df, LastClose(df), cfg.fibonacci,
                                  cfg.price_tolerance, "support")
    ELSE PivotResistances(df, cfg.pivot_left)
         \o ClusterResistances(df, cfg.price_tolerance)
         \o VolumeResistances(df, cfg.vp_enabled, cfg.vp_bins)
         \o find_fibonacci_levels(df, LastClose(df), cfg.fibonacci,
                                  cfg.price_tolerance, "resistance")

\* "l.strength >= self.min_touches"
IsValid(level, min_touches) == level.strength >= min_touches

\* [l for l in consolidated if l.strength >= self.min_touches]
ValidLevels(levels, min_touches) ==
    LET keep(l) == IsValid(l, min_touches) IN SelectSeq(levels, keep)

RECURSIVE InsertByStrengthDesc(_, _)
InsertByStrengthDesc(sorted, level) ==
    IF sorted = <<>> THEN <<level>>
    ELSE IF Head(sorted).strength >= level.strength
         THEN <<Head(sorted)>> \o InsertByStrengthDesc(Tail(sorted), level)
         ELSE <<level>> \o sorted

RECURSIVE SortedByStrengthDesc(_)
\* levels.sort(key=lambda x: x.strength, reverse=True)
SortedByStrengthDesc(levels) ==
    IF levels = <<>> THEN <<>>
    ELSE InsertByStrengthDesc(SortedByStrengthDesc(SubSeq(levels, 1, Len(levels) - 1)),
                              levels[Len(levels)])

\* one side of the tuple find_support_resistance returns
find_support_resistance(df, cfg, level_type) ==
    SortedByStrengthDesc(
        ValidLevels(_consolidate_levels(PooledCandidates(df, cfg, level_type),
                                        level_type, cfg.price_tolerance),
                    cfg.min_touches))

----------------------------------------------------------------------------
(* LevelDetector.get_nearest_levels *)

\* abs(level.price - current_price)
Distance(level, current_price) == RAbs(RSub(level.price, RInt(current_price)))

RECURSIVE InsertByDistanceUnstable(_, _, _, _)
\* mutant: the sort is not stable, a position goes before the positions at
\* the same distance
InsertByDistanceUnstable(sorted, k, levels, current_price) ==
    IF sorted = <<>> THEN <<k>>
    ELSE IF RLt(Distance(levels[Head(sorted)], current_price),
                Distance(levels[k], current_price))
         THEN <<Head(sorted)>>
              \o InsertByDistanceUnstable(Tail(sorted), k, levels, current_price)
         ELSE <<k>> \o sorted

RECURSIVE InsertByDistance(_, _, _, _)
\* `sorted` holds positions of `levels`; the new position goes after every
\* position that is not farther from the current price
InsertByDistance(sorted, k, levels, current_price) ==
    IF sorted = <<>> THEN <<k>>
    ELSE IF RLe(Distance(levels[Head(sorted)], current_price),
                Distance(levels[k], current_price))
         THEN <<Head(sorted)>> \o InsertByDistance(Tail(sorted), k, levels, current_price)
         ELSE <<k>> \o sorted

RECURSIVE SortedByDistance(_, _, _)
\* levels_with_distance.sort(key=lambda x: x[1]), over the first n levels
SortedByDistance(levels, n, current_price) ==
    IF n = 0 THEN <<>>
    ELSE InsertByDistance(SortedByDistance(levels, n - 1, current_price),
                          n, levels, current_price)

\* the Levels returned, as positions in `levels` (the list holds the same
\* Level objects as `levels`, not copies)
get_nearest_levels(levels, current_price, count) ==
    LET by_distance == SortedByDistance(levels, Len(levels), current_price)
    IN  SubSeq(by_distance, 1, IF Len(by_distance) < count THEN Len(by_distance) ELSE count)

----------------------------------------------------------------------------
(* LevelDetector._calculate_bounce_quality and calculate_level_strength_score *)

LookAhead == 3              \* look_ahead = 3
MinBarsForBounce == 5       \* "len(df) < 5"
TouchSaturation == 6        \* min(level.strength / 6.0, 1.0)
RecencyDays == 90           \* max(0, 1 - days_ago / 90)
AgeSaturationDays == 60     \* min(level.age_days / 60.0, 1.0)

BounceBaseline == <<3, 10>> \* return 0.3

\* df.index.get_loc(touch_date); 0 when touch_date is not in df.index
DateIndex(df, date) ==
    IF \E i \in 1..Len(df) : df[i].date = date
    THEN CHOOSE i \in 1..Len(df) : df[i].date = date
    ELSE 0

\* the touch is counted in total_checks: its bar exists and look_ahead bars
\* follow it ("idx + look_ahead >= len(df)" with idx = i - 1)
Eligible(df, touch) ==
    LET i == DateIndex(df, touch.date)
    IN  i # 0 /\ ~((i - 1) + LookAhead >= Len(df))

\* df['Close'].iloc[idx + 1: idx + look_ahead + 1]
FutureCloses(df, i) == [k \in 1..LookAhead |-> df[i + k].Close]

\* the eligible touch is counted in bounces
IsBounce(df, touch, level_type) ==
    LET closes == FutureCloses(df, DateIndex(df, touch.date))
    IN  IF level_type = "support"
        THEN RLt(touch.price, RInt(SeqMax(closes)))
        ELSE RLt(RInt(SeqMin(closes)), touch.price)

_calculate_bounce_quality(level, df) ==
    IF level.touches = <<>> \/ Len(df) < MinBarsForBounce THEN BounceBaseline
    ELSE LET checked == { k \in 1..Len(level.touches) : Eligible(df, level.touches[k]) }
             bounced == { k \in checked : IsBounce(df, level.touches[k], level.type) }
         IN  IF Cardinality(checked) = 0 THEN BounceBaseline
             ELSE Rat(Cardinality(bounced), Cardinality(checked))

\* Level.avg_volume_at_level: the mean of the volumes of the touches
avg_volume_at_level(level) ==
    IF level.volumes = <<>> THEN RInt(0)
    ELSE Rat(ISum(level.volumes), Len(level.volumes))

\* Level.age_days is not None
HasAge(level) == level.touches # <<>>

\* Level.age_days: days between the first and the last test of the level
age_days(level) ==
    LET dates == [k \in 1..Len(level.touches) |-> level.touches[k].date]
    IN  SeqMax(dates) - SeqMin(dates)

\* df['Volume'].mean()
MeanVolume(df) == Rat(ISum(Column(df, "Volume")), Len(df))

\* mutant: the touch factor is not capped at 6 touches
TouchScoreUncapped(level) == RMul(Rat(level.strength, TouchSaturation), <<3, 10>>)

\* Factor 1: min(level.strength / 6.0, 1.0) * 0.30
TouchScore(level) ==
    RMul(RMin(Rat(level.strength, TouchSaturation), RInt(1)), <<3, 10>>)

\* mutant: the recency factor is not floored at 0
RecencyScoreNoFloor(level, df) ==
    IF level.last_test = NoDate THEN RInt(0)
    ELSE LET days_ago == df[Len(df)].date - level.last_test
         IN  RMul(RSub(RInt(1), Rat(days_ago, RecencyDays)), <<1, 5>>)

\* Factor 2: max(0, 1 - days_ago / 90) * 0.20, when last_test is set
RecencyScore(level, df) ==
    IF level.last_test = NoDate THEN RInt(0)
    ELSE LET days_ago == df[Len(df)].date - level.last_test
         IN  RMul(RMax(RInt(0), RSub(RInt(1), Rat(days_ago, RecencyDays))), <<1, 5>>)

\* Factor 3: bounce quality * 0.25
BounceScore(level, df) == RMul(_calculate_bounce_quality(level, df), <<1, 4>>)

\* Factor 4: min(avg_volume_at_level / avg_vol, 2.0) / 2.0 * 0.15, or 0.05
VolumeScore(level, df) ==
    IF RLt(RInt(0), avg_volume_at_level(level))
    THEN RMul(RDiv(RMin(RDiv(avg_volume_at_level(level), MeanVolume(df)), RInt(2)),
                   RInt(2)),
              <<3, 20>>)
    ELSE <<1, 20>>

\* Factor 5: min(level.age_days / 60.0, 1.0) * 0.10, when age_days is set
AgeScore(level) ==
    IF HasAge(level)
    THEN RMul(RMin(Rat(age_days(level), AgeSaturationDays), RInt(1)), <<1, 10>>)
    ELSE RInt(0)

\* the sum of the five factors, before "return min(score, 1.0)"
FactorSum(level, df) ==
    RSum(<<TouchScore(level), RecencyScore(level, df), BounceScore(level, df),
           VolumeScore(level, df), AgeScore(level)>>)

calculate_level_strength_score(level, df) == RMin(FactorSum(level, df), RInt(1))

----------------------------------------------------------------------------
(* SOFRAnalyzer.analyze_contract, after the data is fetched *)

RECURSIVE ScoreAt(_, _, _)
\* "for level in nearest: level.strength_score = ...": the Levels are the
\* objects of `levels`, so the scores show in that list too
ScoreAt(levels, nearest, df) ==
    IF nearest = <<>> THEN levels
    ELSE ScoreAt([levels EXCEPT ![Head(nearest)].strength_score =
                        calculate_level_strength_score(levels[Head(nearest)], df)],
                 Tail(nearest), df)

RECURSIVE InsertPosByPriceAscending(_, _, _, _)
\* mutant: reverse=True is dropped, both lists are sorted ascending
InsertPosByPriceAscending(sorted, k, levels, descending) ==
    IF sorted = <<>> THEN <<k>>
    ELSE IF RLe(levels[Head(sorted)].price, levels[k].price)
         THEN <<Head(sorted)>>
              \o InsertPosByPriceAscending(Tail(sorted), k, levels, descending)
         ELSE <<k>> \o sorted

RECURSIVE InsertPosByPrice(_, _, _, _)
\* descending = TRUE is sort(key=price, reverse=True)
InsertPosByPrice(sorted, k, levels, descending) ==
    IF sorted = <<>> THEN <<k>>
    ELSE IF (IF descending THEN RLe(levels[k].price, levels[Head(sorted)].price)
             ELSE RLe(levels[Head(sorted)].price, levels[k].price))
         THEN <<Head(sorted)>> \o InsertPosByPrice(Tail(sorted), k, levels, descending)
         ELSE <<k>> \o sorted

RECURSIVE SortPosByPrice(_, _, _)
\* nearest_supports.sort(key=lambda x: x.price, reverse=True) and
\* nearest_resistances.sort(key=lambda x: x.price)
SortPosByPrice(nearest, levels, descending) ==
    IF nearest = <<>> THEN <<>>
    ELSE InsertPosByPrice(
             SortPosByPrice(SubSeq(nearest, 1, Len(nearest) - 1), levels, descending),
             nearest[Len(nearest)], levels, descending)

\* one call of calculate_level_strength_score: the Level it is given, what
\* _calculate_bounce_quality returned to it, the five amounts it adds to
\* `score`, its local `score` before the return statement, and what it
\* returned
ScoreCall(level, df) ==
    [level |-> level,
     bounce_quality |-> _calculate_bounce_quality(level, df),
     factors |-> <<TouchScore(level), RecencyScore(level, df), BounceScore(level, df),
                   VolumeScore(level, df), AgeScore(level)>>,
     score |-> FactorSum(level, df),
     returned |-> calculate_level_strength_score(level, df)]

\* the calls of one scoring loop, in order
ScoreCalls(levels, nearest, df) ==
    [k \in 1..Len(nearest) |-> ScoreCall(levels[nearest[k]], df)]

\* the Levels at the given positions
LevelsAt(levels, positions) == [k \in 1..Len(positions) |-> levels[positions[k]]]

----------------------------------------------------------------------------
(* Candidates as the four detectors build them *)

\* _find_pivot_levels: Level(price, side) with one touch at its own price
PivotCandidate(price, side, date) ==
    add_touch_volume(Level(RInt(price), side, 1), date, RInt(price), 1)

\* _find_clustered_levels: Level(bin, side) with the two touches of a bin
ClusterCandidate(price, side, date) ==
    add_touch_volume(
        add_touch_volume(Level(RInt(price), side, 1), date, RInt(price), 1),
        date + 1, RInt(price), 1)

\* _find_volume_levels: Level(price, side, strength=2), no touch
VolumeCandidate(price, side) == Level(RInt(price), side, 2)

\* find_fibonacci_levels: a ratio level no bar touched
FibCandidate(price, side) ==
    [Level(RInt(price), side, 1) EXCEPT !.strength_score = <<1, 2>>]

CandidateKinds == {"pivot", "cluster", "volume", "fib"}

Candidate(price, kind, side, date) ==
    CASE kind = "pivot" -> PivotCandidate(price, side, date)
      [] kind = "cluster" -> ClusterCandidate(price, side, date)
      [] kind = "volume" -> VolumeCandidate(price, side)
      [] kind = "fib" -> FibCandidate(price, side)

\* an entry of a generated list: <<price in ticks, detector kind>>
CandidateSpecs == (1..MaxPrice) \X CandidateKinds

\* the candidate lists of up to MaxCands entries, in ascending price order
\* with every order of equal-priced candidates
AscendingLists ==
    UNION { { s \in [1..n -> CandidateSpecs] :
                \A i \in 1..(n - 1) : s[i][1] <= s[i + 1][1] } : n \in 0..MaxCands }

MkCandidates(spec) ==
    [i \in 1..Len(spec) |-> Candidate(spec[i][1], spec[i][2], "support", 10 * i)]

Reverse(s) == [i \in 1..Len(s) |-> s[Len(s) + 1 - i]]

----------------------------------------------------------------------------
(* Consolidation harness: consolidate a candidate list, then its output.   *)
(* The list is handed over in ascending or in descending price order.      *)

\* the harnesses that are not running
PivotIdle ==
    /\ ppc = "idle" /\ pdf = <<>> /\ pw = 1 /\ psup = <<>> /\ pres = <<>>

ConsIdle ==
    /\ cpc = "idle" /\ clevels = <<>> /\ ctol = 1 /\ cout1 = <<>> /\ cout2 = <<>>

PipeIdle ==
    /\ pc = "idle" /\ contract_df = <<>> /\ config = <<>>
    /\ support_levels = <<>> /\ resistance_levels = <<>>
    /\ nearest_supports = <<>> /\ nearest_resistances = <<>>
    /\ score_calls = <<>>

DetIdle ==
    /\ dpc = {} /\ ddf = <<>> /\ dconfig = <<>>
    /\ volume_levels = <<>> /\ fib_supports = <<>> /\ fib_resistances = <<>>
    /\ volume_profile = <<>>

NearIdle ==
    /\ npc = "idle" /\ nlevels = <<>> /\ ncurrent_price = 1 /\ ncount = 1
    /\ nnearest = <<>>

ClusIdle ==
    /\ kpc = "idle" /\ kdf = <<>> /\ ktol = 1
    /\ cluster_supports = <<>> /\ cluster_resistances = <<>>

StatsIdle ==
    /\ tpc = "idle" /\ tsupports = <<>> /\ tresistances = <<>>
    /\ tcurrent_price = 1 /\ stats = <<>>

MainIdle ==
    /\ mpc = 0 /\ contracts = <<>> /\ args = <<>> /\ results_dict = {}
    /\ analyzed = <<>> /\ reported = <<>> /\ compared = FALSE

ScorerIdle == qpc = "idle" /\ qdf = <<>> /\ qlevel = <<>> /\ qcall = <<>>

AliasIdle ==
    /\ apc = "idle" /\ aheap = <<>> /\ alevels = <<>> /\ ainput = <<>> /\ aout = <<>>

\* every harness added after the first five is idle
OthersIdle == ClusIdle /\ StatsIdle /\ MainIdle /\ ScorerIdle /\ AliasIdle

ConsInit ==
    /\ cpc = "start"
    /\ \E spec \in AscendingLists, rev \in BOOLEAN :
          clevels = IF rev THEN Reverse(MkCandidates(spec)) ELSE MkCandidates(spec)
    /\ ctol \in 1..MaxTol
    /\ cout1 = <<>>
    /\ cout2 = <<>>
    /\ PivotIdle
    /\ PipeIdle
    /\ DetIdle
    /\ NearIdle
    /\ OthersIdle

Consolidate ==
    /\ cpc = "start"
    /\ cout1' = _consolidate_levels(clevels, "support", ctol)
    /\ cpc' = "once"
    /\ UNCHANGED <<clevels, ctol, cout2, pivotVars, pipeVars, detVars, nearVars,
                   clusVars, statsVars, mainVars, scorerVars, aliasVars>>

Reconsolidate ==
    /\ cpc = "once"
    /\ cout2' = _consolidate_levels(cout1, "support", ctol)
    /\ cpc' = "twice"
    /\ UNCHANGED <<clevels, ctol, cout1, pivotVars, pipeVars, detVars, nearVars,
                   clusVars, statsVars, mainVars, scorerVars, aliasVars>>

ConsNext == Consolidate \/ Reconsolidate

SpecCons == ConsInit /\ [][ConsNext]_vars

----------------------------------------------------------------------------
(* Properties of consolidation *)

\* price and touch counts of every Level of a list
Summary(levels) ==
    [i \in 1..Len(levels) |->
        <<levels[i].price, levels[i].strength, Len(levels[i].touches)>>]

\* all candidates carry the same strength
EqualStrengths(levels) ==
    \A i, j \in 1..Len(levels) : levels[i].strength = levels[j].strength

\* every two distinct Levels of the list are more than tol apart
FartherThanTol(levels, tol) ==
    \A i, j \in 1..Len(levels) :
        i # j => RLt(RInt(tol), RAbs(RSub(levels[i].price, levels[j].price)))

\* C3 as stated: consolidating the output of consolidation changes nothing
\* (same number of Levels, same prices, same touch counts), for every
\* candidate list.
C3_IdempotentAlways ==
    cpc = "twice" => Summary(cout2) = Summary(cout1)

\* C3 amended: when all candidates carry the same strength, consolidating
\* the output of consolidation yields the same number of Levels with the
\* same prices and touch counts.
C3_IdempotentEqualStrength ==
    (cpc = "twice" /\ EqualStrengths(clevels)) => Summary(cout2) = Summary(cout1)

\* candidates of equal strength were merged into several groups, and the
\* second consolidation ran
C3_Witness ==
    /\ cpc = "twice"
    /\ EqualStrengths(clevels)
    /\ Len(cout1) >= 2
    /\ Len(cout1) < Len(clevels)

\* C4 as stated: after consolidation every two distinct output Levels are
\* strictly farther apart than price_tolerance, for every candidate list.
C4_SeparatedAlways ==
    cpc # "start" => FartherThanTol(cout1, ctol)

\* C4 amended: when all candidates carry the same strength, every two
\* distinct output Levels are strictly farther apart than price_tolerance.
C4_SeparatedEqualStrength ==
    (cpc # "start" /\ EqualStrengths(clevels)) => FartherThanTol(cout1, ctol)

\* equal-strength candidates consolidated into a merged group and another
\* group that lies within twice the tolerance of it
C4_Witness ==
    /\ cpc = "once"
    /\ EqualStrengths(clevels)
    /\ Len(cout1) >= 2
    /\ Len(cout1) < Len(clevels)
    /\ \E i \in 1..(Len(cout1) - 1) :
          RLe(RSub(cout1[i + 1].price, cout1[i].price), RInt(2 * ctol))

\* C7 as stated: every Level emitted by consolidation has a non-empty touch
\* list.
C7_TouchesNeverEmpty ==
    cpc # "start" => \A i \in 1..Len(cout1) : cout1[i].touches # <<>>

\* C10 as stated: two candidates within price_tolerance of each other
\* consolidate into exactly one Level whose touch count (strength) is the
\* sum of the touch counts (strengths) of the two.
C10_PairMergesWithSummedTouches ==
    (/\ cpc # "start"
     /\ Len(clevels) = 2
     /\ RLe(RAbs(RSub(clevels[1].price, clevels[2].price)), RInt(ctol)))
    => /\ Len(cout1) = 1
       /\ cout1[1].strength = clevels[1].strength + clevels[2].strength

----------------------------------------------------------------------------
(* Groups of a consolidation, stated on the input list *)

\* the list in ascending price order
Ascending(levels) ==
    LET n == Len(levels)
        f == CHOOSE g \in [1..n -> 1..n] :
                 /\ \A i, j \in 1..n : i # j => g[i] # g[j]
                 /\ \A i \in 1..(n - 1) : RLe(levels[g[i]].price, levels[g[i + 1]].price)
    IN  [i \in 1..n |-> levels[f[i]]]

\* plain mean of the prices of S[a..b]
MeanPrice(S, a, b) ==
    RDiv(RSum([i \in 1..(b - a + 1) |-> S[a + i - 1].price]), RInt(b - a + 1))

RECURSIVE GroupStart(_, _, _)
\* the first member of the group of S[k]: S[k] joins the group of S[k-1]
\* iff its price is within tol of the plain mean of the members that group
\* has so far, otherwise it starts a group
GroupStart(S, k, tol) ==
    IF k = 1 THEN 1
    ELSE LET g == GroupStart(S, k - 1, tol)
             gap == RSub(S[k].price, MeanPrice(S, g, k - 1))
         IN  IF RLe(gap, RInt(tol)) /\ RLe(RSub(RInt(0), gap), RInt(tol)) THEN g ELSE k

\* the first members of the groups, in ascending order
GroupStarts(S, tol) ==
    SetToSortedSeq({ k \in 1..Len(S) : GroupStart(S, k, tol) = k })

\* the members of the m-th group
GroupMembers(S, tol, m) ==
    LET starts == GroupStarts(S, tol)
        last == IF m = Len(starts) THEN Len(S) ELSE starts[m + 1] - 1
    IN  SubSeq(S, starts[m], last)

TouchDates(level) == { level.touches[k].date : k \in 1..Len(level.touches) }

\* the output has one Level per group, holding the touches of the members
GroupedAsStated(input, output, tol) ==
    LET S == Ascending(input)
    IN  /\ Len(output) = Len(GroupStarts(S, tol))
        /\ \A m \in 1..Len(output) :
              LET members == GroupMembers(S, tol, m)
              IN  /\ TouchDates(output[m]) =
                        UNION { TouchDates(members[i]) : i \in 1..Len(members) }
                  /\ Len(output[m].touches) =
                        ISum([i \in 1..Len(members) |-> Len(members[i].touches)])

\* C20: _consolidate_levels takes the candidates in ascending price order
\* in one pass; a candidate joins the open group iff its price is within
\* price_tolerance of the plain mean of the members the group has so far,
\* otherwise the group is closed and the candidate starts the next one.
C20_GroupingRule ==
    /\ cpc # "start" => (clevels # <<>> => GroupedAsStated(clevels, cout1, ctol))
    /\ cpc = "twice" => (cout1 # <<>> => GroupedAsStated(cout1, cout2, ctol))

\* a candidate joined a group although it is farther than price_tolerance
\* from the group's first member
C20_Witness ==
    /\ cpc = "once"
    /\ Len(cout1) = 1
    /\ LET S == Ascending(clevels)
       IN  \E k \in 2..Len(S) :
              /\ GroupStart(S, k, ctol) # k
              /\ RLt(RInt(ctol),
                     RSub(S[k].price, S[GroupStart(S, k, ctol)].price))

\* the price of the merged Level is the strength-weighted mean of the
\* members, the weights do not sum to zero, and the price lies between the
\* lowest and the highest member price
MergedAsStated(members, merged) ==
    LET W == ISum([i \in 1..Len(members) |-> members[i].strength])
        PW == RSum([i \in 1..Len(members) |->
                       RMul(members[i].price, RInt(members[i].strength))])
    IN  /\ W > 0
        /\ RMul(merged.price, RInt(W)) = PW
        /\ RLe(members[1].price, merged.price)
        /\ RLe(merged.price, members[Len(members)].price)

\* C18: for every group merged by _merge_levels the merged price equals
\* sum(price_i * strength_i) / sum(strength_i) over the members (strength 2
\* for a volume-profile candidate); the divisor is not zero and the price
\* lies between the smallest and the largest member price.
C18_WeightedMergedPrice ==
    (cpc # "start" /\ clevels # <<>>) =>
        LET S == Ascending(clevels)
        IN  /\ Len(cout1) = Len(GroupStarts(S, ctol))
            /\ \A m \in 1..Len(cout1) :
                  MergedAsStated(GroupMembers(S, ctol, m), cout1[m])

\* a volume-profile candidate and a one-touch candidate at different prices
\* were merged: the merged price is not the plain mean of the two
C18_Witness ==
    /\ cpc = "once"
    /\ Len(clevels) = 2
    /\ Len(cout1) = 1
    /\ clevels[1].price # clevels[2].price
    /\ clevels[1].strength # clevels[2].strength
    /\ \E i \in 1..2 : clevels[i].touches = <<>> /\ clevels[i].strength = 2
    /\ RMul(cout1[1].price, RInt(2)) # RAdd(clevels[1].price, clevels[2].price)

\* total number of touches of a list of Levels
TouchTotal(levels) == ISum([i \in 1..Len(levels) |-> Len(levels[i].touches)])

\* the output is made of the touches of consecutive runs of the price-sorted
\* input that together cover it, one output Level per run, in run order
PartitionAsStated(input, output) ==
    LET S == Ascending(input)
        n == Len(S)
    IN  /\ n = 0 => output = <<>>
        /\ n > 0 => (1 <= Len(output) /\ Len(output) <= n)
        /\ \A m \in 1..(Len(output) - 1) : RLe(output[m].price, output[m + 1].price)
        /\ TouchTotal(output) = TouchTotal(input)
        /\ n > 0 =>
              \E cuts \in SUBSET (2..n) :
                  LET starts == SetToSortedSeq(cuts \cup {1})
                      run(m) == SubSeq(S, starts[m],
                                       IF m = Len(starts) THEN n ELSE starts[m + 1] - 1)
                  IN  /\ Len(output) = Len(starts)
                      /\ \A m \in 1..Len(starts) :
                            /\ Len(output[m].touches) = TouchTotal(run(m))
                            /\ TouchDates(output[m]) =
                                  UNION { TouchDates(run(m)[i]) : i \in 1..Len(run(m)) }
                            /\ RLe(run(m)[1].price, output[m].price)
                            /\ RLe(output[m].price, run(m)[Len(run(m))].price)

\* C28: _consolidate_levels partitions its input into contiguous runs of
\* the price-sorted candidates, one output Level per run: between 1 and
\* len(input) Levels for a non-empty input and none for an empty one,
\* output prices non-decreasing, and as many touches in total as the
\* candidates have.
C28_ConsolidationPartitions ==
    /\ cpc # "start" => PartitionAsStated(clevels, cout1)
    /\ cpc = "twice" => PartitionAsStated(cout1, cout2)

\* three candidates with touches came out as two Levels: a run of two
\* candidates and a run of one
C28_Witness ==
    /\ cpc = "once"
    /\ Len(clevels) = 3
    /\ Len(cout1) = 2
    /\ \A i \in 1..3 : clevels[i].touches # <<>>
    /\ RLt(cout1[1].price, cout1[2].price)
    /\ \E m \in 1..2 : Len(cout1[m].touches) > 1

\* C19 as stated: the touch list of every Level emitted by _merge_levels is
\* in chronological order, its last_test is the latest date among its
\* touches and its first touch is the earliest.
C19_TouchesChronological ==
    cpc # "start" =>
        \A m \in 1..Len(cout1) :
            LET t == cout1[m].touches
            IN  /\ \A k \in 1..(Len(t) - 1) : t[k].date <= t[k + 1].date
                /\ t # <<>> =>
                      /\ \A k \in 1..Len(t) : t[k].date <= cout1[m].last_test
                      /\ \A k \in 1..Len(t) : t[1].date <= t[k].date

----------------------------------------------------------------------------
(* Pivot harness: _find_pivot_levels on every short series, and on the      *)
(* 10-bar series of the specification's scenario                            *)

\* a bar with the given Low and High, on day `day`
Bar(low, high, day) ==
    [Low |-> low, High |-> high, Close |-> high, Volume |-> 1, date |-> day]

BarRanges == { lh \in (1..MaxBarPrice) \X (1..MaxBarPrice) : lh[1] <= lh[2] }

ShortSeries ==
    UNION { { [i \in 1..n |-> Bar(r[i][1], r[i][2], i)] : r \in [1..n -> BarRanges] }
            : n \in 1..MaxBars }

ScenarioLows == <<10, 9, 8, 9, 10, 10, 9, 8, 9, 10>>

ScenarioSeries ==
    [i \in 1..Len(ScenarioLows) |-> Bar(ScenarioLows[i], ScenarioLows[i] + 1, i)]

PivotInit ==
    /\ ppc = "start"
    /\ \/ pdf \in ShortSeries /\ pw \in 1..MaxOrder
       \/ pdf = ScenarioSeries /\ pw = 2
    /\ psup = <<>>
    /\ pres = <<>>
    /\ ConsIdle
    /\ PipeIdle
    /\ DetIdle
    /\ NearIdle
    /\ OthersIdle

FindPivots ==
    /\ ppc = "start"
    /\ psup' = PivotSupports(pdf, pw)
    /\ pres' = PivotResistances(pdf, pw)
    /\ ppc' = "done"
    /\ UNCHANGED <<pdf, pw, consVars, pipeVars, detVars, nearVars,
                   clusVars, statsVars, mainVars, scorerVars, aliasVars>>

PivotNext == FindPivots

SpecPivot == PivotInit /\ [][PivotNext]_vars

----------------------------------------------------------------------------
(* Properties of the pivot detector *)

\* the list holds a candidate for bar i: one touch, dated as bar i
MarkedIn(levels, df, i) ==
    \E k \in 1..Len(levels) :
        /\ Len(levels[k].touches) = 1
        /\ levels[k].touches[1].date = df[i].date

\* bar i has a full window of w bars on each side (w <= i - 1 < n - w)
Interior(df, i, w) == w + 1 <= i /\ i <= Len(df) - w

C9_EdgeBarsNeverMarked ==
    ppc = "done" =>
        \A i \in 1..Len(pdf) :
            ~Interior(pdf, i, pw) => ~MarkedIn(psup, pdf, i) /\ ~MarkedIn(pres, pdf, i)

----------------------------------------------------------------------------
(* Full analysis: analyze_contract on a series and a configuration *)

\* <<Low, High, Close>> of a bar, in price levels: a flat bar at either
\* level, and a bar that spans both and closes at its High
BarShapes == { <<1, 1, 1>>, <<1, 2, 2>>, <<2, 2, 2>> }

\* the day of bar i: two consecutive sessions, one seven weeks later, then
\* one session every 200 days (gaps below and above the 60- and 90-day
\* windows of the scorer)
DayOf(i) == IF i <= 2 THEN i ELSE IF i = 3 THEN 50 ELSE 200 * (i - 3)

PipeBar(shape, day) ==
    [Low |-> PriceStep * shape[1], High |-> PriceStep * shape[2],
     Close |-> PriceStep * shape[3], Volume |-> 1, date |-> day]

PipeSeries ==
    UNION { { [i \in 1..n |-> PipeBar(sh[i], DayOf(i))] : sh \in [1..n -> BarShapes] }
            : n \in 1..PipeBars }

\* the 'fibonacci' section of the configuration
FibConfigs ==
    { [enabled |-> FALSE, levels |-> <<>>],
      [enabled |-> TRUE, levels |-> << <<191, 500>>, <<1, 2>> >>] }

Configs ==
    [ price_tolerance : 1..2,
      min_touches : 1..MaxMinTouches,
      pivot_left : {1},
      vp_enabled : BOOLEAN,
      vp_bins : {2},
      fibonacci : FibConfigs,
      max_levels : {2} ]

PipeInit ==
    /\ pc = "start"
    /\ contract_df \in PipeSeries
    /\ config \in Configs
    /\ support_levels = <<>>
    /\ resistance_levels = <<>>
    /\ nearest_supports = <<>>
    /\ nearest_resistances = <<>>
    /\ score_calls = <<>>
    /\ ConsIdle
    /\ PivotIdle
    /\ DetIdle
    /\ NearIdle
    /\ OthersIdle

\* support_levels, resistance_levels = self.level_detector.find_support_resistance(contract_df)
FindSupportResistance ==
    /\ pc = "start"
    /\ support_levels' = find_support_resistance(contract_df, config, "support")
    /\ resistance_levels' = find_support_resistance(contract_df, config, "resistance")
    /\ pc' = "found"
    /\ UNCHANGED <<contract_df, config, nearest_supports, nearest_resistances,
                   score_calls, consVars, pivotVars, detVars, nearVars,
                   clusVars, statsVars, mainVars, scorerVars, aliasVars>>

\* the two calls of get_nearest_levels
SelectNearest ==
    /\ pc = "found"
    /\ nearest_supports' =
          get_nearest_levels(support_levels, LastClose(contract_df), config.max_levels)
    /\ nearest_resistances' =
          get_nearest_levels(resistance_levels, LastClose(contract_df), config.max_levels)
    /\ pc' = "selected"
    /\ UNCHANGED <<contract_df, config, support_levels, resistance_levels,
                   score_calls, consVars, pivotVars, detVars, nearVars,
                   clusVars, statsVars, mainVars, scorerVars, aliasVars>>

\* the two scoring loops
ScoreNearest ==
    /\ pc = "selected"
    /\ support_levels' = ScoreAt(support_levels, nearest_supports, contract_df)
    /\ resistance_levels' = ScoreAt(resistance_levels, nearest_resistances, contract_df)
    /\ pc' = "scored"
    /\ score_calls' = ScoreCalls(support_levels, nearest_supports, contract_df)
                      \o ScoreCalls(resistance_levels, nearest_resistances, contract_df)
    /\ UNCHANGED <<contract_df, config, nearest_supports, nearest_resistances,
                   consVars, pivotVars, detVars, nearVars,
                   clusVars, statsVars, mainVars, scorerVars, aliasVars>>

\* the two sorts by price; the result is then compiled and returned
SortNearest ==
    /\ pc = "scored"
    /\ nearest_supports' = SortPosByPrice(nearest_supports, support_levels, TRUE)
    /\ nearest_resistances' = SortPosByPrice(nearest_resistances, resistance_levels, FALSE)
    /\ pc' = "done"
    /\ UNCHANGED <<contract_df, config, support_levels, resistance_levels,
                   score_calls, consVars, pivotVars, detVars, nearVars,
                   clusVars, statsVars, mainVars, scorerVars, aliasVars>>

PipeNext == FindSupportResistance \/ SelectNearest \/ ScoreNearest \/ SortNearest

Spec == PipeInit /\ [][PipeNext]_vars

\* results['support_levels'], results['resistance_levels']
ResultSupports == LevelsAt(support_levels, nearest_supports)
ResultResistances == LevelsAt(resistance_levels, nearest_resistances)

----------------------------------------------------------------------------
(* Properties of the full analysis *)

InUnitInterval(r) == r # NoScore /\ RLe(RInt(0), r) /\ RLe(r, RInt(1))

----------------------------------------------------------------------------
(* Detector harness: _find_volume_levels and find_fibonacci_levels on a     *)
(* series and a detection configuration, in either order                    *)

DetBars == 3        \* longest series of the detector harness
DefaultBins == 50   \* volume_config.get('bins', 50)

\* Volume of a generated bar
BarVolumes == {0, 1}

DetBar(shape, volume, day) == [PipeBar(shape, day) EXCEPT !.Volume = volume]

\* <<Low, High, Close>> of a bar of the detector harness: the shapes of the
\* full analysis and a bar of twice the range that closes in its middle
DetShapes == BarShapes \cup { <<1, 3, 2>> }

DetSeries ==
    UNION { { [i \in 1..n |-> DetBar(b[i][1], b[i][2], i)] :
                b \in [1..n -> DetShapes \X BarVolumes] } : n \in 1..DetBars }

FibRatios == << <<191, 500>>, <<1, 2>> >>

\* the 'detection' section: price_tolerance as the file gives it (nothing
\* checks its range), 'enabled' of the fibonacci section present or absent
DetConfigs ==
    [ price_tolerance : 0..2,
      volume_profile : { [enabled |-> TRUE, bins |-> 2],
                         [enabled |-> TRUE, bins |-> 16],
                         [enabled |-> FALSE, bins |-> 2] },
      fibonacci : { [enabled |-> TRUE, levels |-> FibRatios],
                    [enabled |-> FALSE, levels |-> FibRatios],
                    [levels |-> FibRatios] } ]

DetInit ==
    /\ dpc = {}
    /\ ddf \in DetSeries
    /\ dconfig \in DetConfigs
    /\ volume_levels = <<>>
    /\ fib_supports = <<>>
    /\ fib_resistances = <<>>
    /\ volume_profile = <<>>
    /\ ConsIdle
    /\ PivotIdle
    /\ PipeIdle
    /\ NearIdle
    /\ OthersIdle

\* volume_levels = self._find_volume_levels(df)
FindVolumeLevels ==
    /\ ddf # <<>>
    /\ "volume" \notin dpc
    /\ LET volume_config == dconfig.volume_profile
           enabled == Get(volume_config, "enabled", TRUE)
           bins == Get(volume_config, "bins", DefaultBins)
       IN  /\ volume_levels' = [support |-> VolumeSupports(ddf, enabled, bins),
                                resistance |-> VolumeResistances(ddf, enabled, bins)]
           /\ volume_profile' =
                 IF enabled THEN VolumeProfile(ddf, 1, VolumeBinSize(ddf, bins), <<>>)
                 ELSE <<>>
    /\ dpc' = dpc \cup {"volume"}
    /\ UNCHANGED <<ddf, dconfig, fib_supports, fib_resistances,
                   consVars, pivotVars, pipeVars, nearVars,
                   clusVars, statsVars, mainVars, scorerVars, aliasVars>>

\* fib_supports, fib_resistances = self.find_fibonacci_levels(df, current_price)
FindFibonacciLevels ==
    /\ ddf # <<>>
    /\ "fibonacci" \notin dpc
    /\ fib_supports' = find_fibonacci_levels(ddf, LastClose(ddf), dconfig.fibonacci,
                                             dconfig.price_tolerance, "support")
    /\ fib_resistances' = find_fibonacci_levels(ddf, LastClose(ddf), dconfig.fibonacci,
                                                dconfig.price_tolerance, "resistance")
    /\ dpc' = dpc \cup {"fibonacci"}
    /\ UNCHANGED <<ddf, dconfig, volume_levels, volume_profile,
                   consVars, pivotVars, pipeVars, nearVars,
                   clusVars, statsVars, mainVars, scorerVars, aliasVars>>

DetNext == FindVolumeLevels \/ FindFibonacciLevels

SpecDetect == DetInit /\ [][DetNext]_vars

----------------------------------------------------------------------------
(* Properties of the detectors *)

\* the series has a price range and traded volume: an enabled detector
\* finds candidates in it
HasRangeAndVolume(df) ==
    /\ PriceRange(df) > 0
    /\ \E i \in 1..Len(df) : df[i].Volume > 0 /\ df[i].High > df[i].Low

\* C11: a detector whose 'enabled' flag is off contributes no candidate on
\* either side, for every series: _find_volume_levels returns two empty
\* lists when volume_profile.enabled is false, find_fibonacci_levels when
\* fibonacci.enabled is false or absent.
C11_DisabledDetectorsEmpty ==
    /\ ("volume" \in dpc /\ dconfig.volume_profile.enabled = FALSE)
          => volume_levels.support = <<>> /\ volume_levels.resistance = <<>>
    /\ ("fibonacci" \in dpc /\ ("enabled" \notin DOMAIN dconfig.fibonacci
                                 \/ dconfig.fibonacci.enabled = FALSE))
          => fib_supports = <<>> /\ fib_resistances = <<>>

\* both detectors returned nothing on a series with range and volume: the
\* volume profile switched off, the fibonacci section without 'enabled'
C11_Witness ==
    /\ dpc = {"volume", "fibonacci"}
    /\ HasRangeAndVolume(ddf)
    /\ dconfig.volume_profile.enabled = FALSE
    /\ "enabled" \notin DOMAIN dconfig.fibonacci
    /\ volume_levels.support = <<>> /\ volume_levels.resistance = <<>>
    /\ fib_supports = <<>> /\ fib_resistances = <<>>

\* C13 as stated: with a price_tolerance that is out of range (<= 0) the
\* engine fails before any detector runs: no detector ever returns under
\* such a configuration.
C13_BadConfigRunsNoDetector ==
    dconfig # <<>> /\ dconfig.price_tolerance <= 0 => dpc = {}

\* sum of the Volume column
TotalVolume(df) == ISum(Column(df, "Volume"))

\* C14 as stated: on a series whose price range is zero the volume-profile
\* and the Fibonacci detector return no candidate, and on a series whose
\* total volume is zero the volume-profile detector returns no candidate.
C14_DegenerateSeriesEmpty ==
    /\ ("volume" \in dpc /\ (PriceRange(ddf) = 0 \/ TotalVolume(ddf) = 0))
          => volume_levels.support = <<>> /\ volume_levels.resistance = <<>>
    /\ ("fibonacci" \in dpc /\ PriceRange(ddf) = 0)
          => fib_supports = <<>> /\ fib_resistances = <<>>

\* the volume-profile detector ran and was not switched off
VolumeRan == "volume" \in dpc /\ dconfig.volume_profile.enabled

\* C22 as stated: the volume of every bar, also of a bar with High = Low,
\* is split over the bins it touches, so the accumulated volume of the
\* profile equals the total Volume of the series.
C22_ProfileKeepsTotalVolume ==
    VolumeRan =>
        RSum([k \in 1..Len(volume_profile) |-> volume_profile[k][2]])
            = RInt(TotalVolume(ddf))

\* the candidates of both sides, supports first
VolumeCandidates == volume_levels.support \o volume_levels.resistance

\* accumulated volume of the bin at the given price
ProfileVolume(price) ==
    volume_profile[CHOOSE k \in 1..Len(volume_profile) : volume_profile[k][1] = price][2]

\* C23: when enabled the volume-profile detector returns at most 10
\* candidates over both sides (all bins when there are fewer), at distinct
\* bins of the profile; no bin left out has strictly more volume than a
\* returned one; every candidate has strength 2 and is a support iff its
\* price is strictly below the last Close.
C23_TopVolumeBins ==
    VolumeRan =>
        LET bins == { volume_profile[k][1] : k \in 1..Len(volume_profile) }
            returned == { VolumeCandidates[k].price : k \in 1..Len(VolumeCandidates) }
        IN  /\ Len(VolumeCandidates) <= 10
            /\ Len(VolumeCandidates) =
                  IF Len(volume_profile) < 10 THEN Len(volume_profile) ELSE 10
            /\ Cardinality(returned) = Len(VolumeCandidates)
            /\ returned \subseteq bins
            /\ \A r \in returned, o \in bins \ returned :
                  RLe(ProfileVolume(o), ProfileVolume(r))
            /\ \A k \in 1..Len(VolumeCandidates) : VolumeCandidates[k].strength = 2
            /\ \A k \in 1..Len(volume_levels.support) :
                  /\ volume_levels.support[k].type = "support"
                  /\ RLt(volume_levels.support[k].price, RInt(LastClose(ddf)))
            /\ \A k \in 1..Len(volume_levels.resistance) :
                  /\ volume_levels.resistance[k].type = "resistance"
                  /\ RLe(RInt(LastClose(ddf)), volume_levels.resistance[k].price)

\* the profile has more than 10 bins of unequal volume, a bin with less
\* volume than a returned one was left out, and the bin priced at the last
\* Close was returned as a resistance
C23_Witness ==
    /\ VolumeRan
    /\ Len(volume_profile) > 10
    /\ Len(VolumeCandidates) = 10
    /\ \E o \in 1..Len(volume_profile) :
          /\ \A k \in 1..10 : VolumeCandidates[k].price # volume_profile[o][1]
          /\ \E k \in 1..10 :
                RLt(volume_profile[o][2], ProfileVolume(VolumeCandidates[k].price))
    /\ \E k \in 1..Len(volume_levels.resistance) :
          volume_levels.resistance[k].price = RInt(LastClose(ddf))
    /\ volume_levels.support # <<>>

\* the Fibonacci detector ran, enabled, on a series with a price range
FibRan ==
    /\ "fibonacci" \in dpc
    /\ Get(dconfig.fibonacci, "enabled", FALSE)
    /\ PriceRange(ddf) > 0

\* the candidates of both sides, supports first
FibCandidates == fib_supports \o fib_resistances

\* swing_high - (swing_high - swing_low) * r
ExactFibPrice(ratio) ==
    RSub(RInt(SeqMax(Column(ddf, "High"))), RMul(RInt(PriceRange(ddf)), ratio))

\* value x lies within price_tolerance of price p
WithinTolerance(x, p) ==
    RLe(RAbs(RSub(RInt(x), p)), RInt(dconfig.price_tolerance))

\* the touches a candidate at price p has as stated: one for every bar whose
\* Low or High lies within price_tolerance of p, at the Low if the Low does
TouchesAsStated(level, p) ==
    LET near(i) == WithinTolerance(ddf[i].Low, p) \/ WithinTolerance(ddf[i].High, p)
        bars == SelectSeq([i \in 1..Len(ddf) |-> i], near)
    IN  level.touches =
            [k \in 1..Len(bars) |->
                [date |-> ddf[bars[k]].date,
                 price |-> IF WithinTolerance(ddf[bars[k]].Low, p)
                           THEN RInt(ddf[bars[k]].Low)
                           ELSE RInt(ddf[bars[k]].High)]]

\* one candidate per configured ratio, at the price PriceOk accepts for the
\* ratio; relative to the price Ref gives for it, the candidate is a
\* support iff that price is strictly below the current price, and it
\* holds the stated touches
FibAsStated(Ref(_, _), PriceOk(_, _)) ==
    LET ratios == dconfig.fibonacci.levels
    IN  /\ Len(FibCandidates) = Len(ratios)
        /\ \A k \in 1..Len(fib_supports) : fib_supports[k].type = "support"
        /\ \A k \in 1..Len(fib_resistances) : fib_resistances[k].type = "resistance"
        /\ \E f \in [1..Len(ratios) -> 1..Len(FibCandidates)] :
              /\ \A i, j \in 1..Len(ratios) : f[i] = f[j] => i = j
              /\ \A j \in 1..Len(ratios) :
                    LET level == FibCandidates[f[j]]
                        p == Ref(level, ratios[j])
                    IN  /\ PriceOk(level, ratios[j])
                        /\ (level.type = "support") <=> RLt(p, RInt(LastClose(ddf)))
                        /\ TouchesAsStated(level, p)

IsRoundedTo4(q, x) ==
    LET step == Rat(TicksPerUnit, FibDecimalScale)
    IN  /\ RDiv(q, step)[2] = 1
        /\ RLe(RMul(RInt(2), RAbs(RSub(q, x))), step)

----------------------------------------------------------------------------
(* Nearest-level harness: get_nearest_levels on a list that                 *)
(* find_support_resistance returned, a current price and a count            *)

MaxCount == 2       \* count ranges over 1..MaxCount

\* what find_support_resistance makes of a pooled candidate list
\* (price_tolerance 1, min_touches 1): consolidated, filtered, sorted by
\* strength, highest first
FoundLists ==
    { SortedByStrengthDesc(
          ValidLevels(_consolidate_levels(MkCandidates(spec), "support", 1), 1)) :
        spec \in AscendingLists }

NearInit ==
    /\ npc = "start"
    /\ nlevels \in FoundLists
    /\ ncurrent_price \in 1..MaxPrice
    /\ ncount \in 1..MaxCount
    /\ nnearest = <<>>
    /\ ConsIdle
    /\ PivotIdle
    /\ PipeIdle
    /\ DetIdle
    /\ OthersIdle

\* self.level_detector.get_nearest_levels(levels, current_price, count)
GetNearest ==
    /\ npc = "start"
    /\ nnearest' = get_nearest_levels(nlevels, ncurrent_price, ncount)
    /\ npc' = "done"
    /\ UNCHANGED <<nlevels, ncurrent_price, ncount,
                   consVars, pivotVars, pipeVars, detVars,
                   clusVars, statsVars, mainVars, scorerVars, aliasVars>>

NearNext == GetNearest

SpecNear == NearInit /\ [][NearNext]_vars

----------------------------------------------------------------------------
(* Properties of get_nearest_levels *)

\* |price of the Level - current price|
Gap(level, current_price) ==
    LET d == RSub(level.price, RInt(current_price))
    IN  IF RLt(d, RInt(0)) THEN RSub(RInt(0), d) ELSE d

\* the positions of nlevels that were returned
Returned == { nnearest[k] : k \in 1..Len(nnearest) }

\* C15: get_nearest_levels returns min(N, number of levels) distinct Levels
\* of the list; no returned Level is farther from the current price than a
\* Level that was not returned, and of two Levels at the same distance the
\* returned one has at least the touch count of the one left out.
C15_NearestLevels ==
    npc = "done" =>
        /\ Len(nnearest) = IF ncount < Len(nlevels) THEN ncount ELSE Len(nlevels)
        /\ Returned \subseteq 1..Len(nlevels)
        /\ Cardinality(Returned) = Len(nnearest)
        /\ \A i \in Returned, j \in (1..Len(nlevels)) \ Returned :
              /\ RLe(Gap(nlevels[i], ncurrent_price), Gap(nlevels[j], ncurrent_price))
              /\ Gap(nlevels[i], ncurrent_price) = Gap(nlevels[j], ncurrent_price)
                    => nlevels[i].strength >= nlevels[j].strength

\* a Level was left out although it is as near as a returned one: the
\* returned one has the higher touch count
C15_Witness ==
    /\ npc = "done"
    /\ \E i \in Returned, j \in (1..Len(nlevels)) \ Returned :
          /\ Gap(nlevels[i], ncurrent_price) = Gap(nlevels[j], ncurrent_price)
          /\ nlevels[i].strength > nlevels[j].strength

----------------------------------------------------------------------------
(* Properties of the full analysis: validation of the series *)

\* the series has fewer bars than a full pivot window (w bars on each side
\* of one bar), or a bar whose High is below its Low
TooShortOrInverted(df, w) ==
    \/ Len(df) < 2 * w + 1
    \/ \E i \in 1..Len(df) : df[i].High < df[i].Low

\* C12 as stated: the analysis of a series with fewer bars than the pivot
\* window needs, or with a bar whose High < Low, fails: it never yields a
\* Level on either side and never completes with a result.
C12_InvalidSeriesYieldsNothing ==
    TooShortOrInverted(contract_df, config.pivot_left) =>
        /\ pc # "done"
        /\ support_levels = <<>>
        /\ resistance_levels = <<>>

----------------------------------------------------------------------------
(* Properties of the full analysis: the result *)

\* the positions a list of positions holds
PosSet(positions) == { positions[k] : k \in 1..Len(positions) }

\* the sort of one side keeps the Levels that were selected: same number,
\* same Levels
KeepsSelection(before, after) ==
    Len(after) = Len(before) /\ PosSet(after) = PosSet(before)

----------------------------------------------------------------------------
(* Cluster harness: _find_clustered_levels on every short series, with the  *)
(* prices one tick apart or WideStep ticks apart                            *)

WideStep == 150     \* ticks between the price levels of a wide series

\* the series with its price levels `step` ticks apart
Spread(df, step) ==
    [i \in 1..Len(df) |->
        [df[i] EXCEPT !.Low = step * (df[i].Low - 1) + 1,
                      !.High = step * (df[i].High - 1) + 1,
                      !.Close = step * (df[i].Close - 1) + 1]]

ClusInit ==
    /\ kpc = "start"
    /\ \E series \in ShortSeries, step \in {1, WideStep} : kdf = Spread(series, step)
    /\ ktol \in 1..2
    /\ cluster_supports = <<>>
    /\ cluster_resistances = <<>>
    /\ ConsIdle /\ PivotIdle /\ PipeIdle /\ DetIdle /\ NearIdle
    /\ StatsIdle /\ MainIdle /\ ScorerIdle /\ AliasIdle

\* cluster_supports, cluster_resistances = self._find_clustered_levels(df)
FindClusteredLevels ==
    /\ kpc = "start"
    /\ cluster_supports' = ClusterSupports(kdf, ktol)
    /\ cluster_resistances' = ClusterResistances(kdf, ktol)
    /\ kpc' = "done"
    /\ UNCHANGED <<kdf, ktol, consVars, pivotVars, pipeVars, detVars, nearVars,
                   statsVars, mainVars, scorerVars, aliasVars>>

ClusNext == FindClusteredLevels

SpecCluster == ClusInit /\ [][ClusNext]_vars

----------------------------------------------------------------------------
(* Properties of the cluster detector *)

\* max(price_tolerance, (max High - min Low) / 100)
StatedBinSize(df, tol) ==
    LET adaptive == Rat(PriceRange(df), 100)
    IN  IF RLe(adaptive, RInt(tol)) THEN RInt(tol) ELSE adaptive

\* the bin of bar i by the given column
BinOf(df, i, column, tol) == BinKey(RInt(df[i][column]), StatedBinSize(df, tol))

\* the bars of a bin
BarsIn(df, bin, column, tol) == { i \in 1..Len(df) : BinOf(df, i, column, tol) = bin }

\* the bins that hold at least two bars
CrowdedBins(df, column, tol) ==
    { BinOf(df, i, column, tol) : i \in
        { j \in 1..Len(df) :
            Cardinality(BarsIn(df, BinOf(df, j, column, tol), column, tol)) >= 2 } }

\* the candidates are the crowded bins, one each, and a candidate carries
\* exactly one touch per bar of its bin, at that bar's price
ClustersAsStated(out, df, column, tol) ==
    /\ Len(out) = Cardinality(CrowdedBins(df, column, tol))
    /\ { out[k].price : k \in 1..Len(out) } = CrowdedBins(df, column, tol)
    /\ \A k \in 1..Len(out) :
          LET bars == BarsIn(df, out[k].price, column, tol)
          IN  /\ Len(out[k].touches) = Cardinality(bars)
              /\ Len(out[k].touches) >= 2
              /\ TouchDates(out[k]) = { df[i].date : i \in bars }
              /\ \A t \in 1..Len(out[k].touches) :
                    \E i \in bars :
                        /\ out[k].touches[t].date = df[i].date
                        /\ out[k].touches[t].price = RInt(df[i][column])
    /\ ISum([k \in 1..Len(out) |-> Len(out[k].touches)]) <= Len(df)

----------------------------------------------------------------------------
(* Properties of the scorer's factors *)

\* position of the bar of a touch in the series, 0 when no bar has its date
BarOfTouch(df, touch) ==
    IF \E i \in 1..Len(df) : df[i].date = touch.date
    THEN CHOOSE i \in 1..Len(df) : df[i].date = touch.date
    ELSE 0

\* the touches of a level whose bar exists and has at least 3 bars after it
EligibleTouches(level, df) ==
    { k \in 1..Len(level.touches) :
        /\ BarOfTouch(df, level.touches[k]) # 0
        /\ BarOfTouch(df, level.touches[k]) + 3 <= Len(df) }

\* the eligible touches after which a Close of the next 3 bars is above
\* (support) or below (resistance) the touch price
BouncedTouches(level, df) ==
    { k \in EligibleTouches(level, df) :
        \E j \in (BarOfTouch(df, level.touches[k]) + 1)
                    ..(BarOfTouch(df, level.touches[k]) + 3) :
            IF level.type = "support"
            THEN RLt(level.touches[k].price, RInt(df[j].Close))
            ELSE RLt(RInt(df[j].Close), level.touches[k].price) }

\* bounces / eligible, the 0.3 baseline when no touch is eligible
StatedBounceQuality(level, df) ==
    IF EligibleTouches(level, df) = {} THEN <<3, 10>>
    ELSE Rat(Cardinality(BouncedTouches(level, df)),
             Cardinality(EligibleTouches(level, df)))

\* C25 as stated: every call of _calculate_bounce_quality returns
\* bounces / eligible over the touches that have their bar in the series and
\* at least 3 bars after it, the 0.3 baseline when no touch is eligible, and
\* a value between 0 and 1.
C25_BounceQualityAsStated ==
    \A k \in 1..Len(score_calls) :
        /\ score_calls[k].bounce_quality =
              StatedBounceQuality(score_calls[k].level, contract_df)
        /\ RLe(RInt(0), score_calls[k].bounce_quality)
        /\ RLe(score_calls[k].bounce_quality, RInt(1))

----------------------------------------------------------------------------
(* Scorer harness: calculate_level_strength_score on a Level whose touches  *)
(* carry the volume of their bars                                           *)

ScorerBars == 5     \* longest series of the scorer harness

\* <<Low, High, Close>> of a bar of the scorer harness
ScorerShapes == { <<1, 1, 1>>, <<1, 2, 2>> }

\* touches a Level has on one bar
TouchCounts == {0, 3}

ScorerSeries ==
    UNION { { [i \in 1..n |-> DetBar(b[i][1], b[i][2], DayOf(i))] :
                b \in [1..n -> ScorerShapes \X BarVolumes] } : n \in 1..ScorerBars }

RECURSIVE TouchBar(_, _, _)
\* count touches of one bar, at its Low
TouchBar(level, bar, count) ==
    IF count = 0 THEN level
    ELSE TouchBar(add_touch_volume(level, bar.date, RInt(bar.Low), bar.Volume),
                  bar, count - 1)

RECURSIVE TouchedLevel(_, _, _, _)
\* the Level after the touches of bars i.. are added, in bar order
TouchedLevel(level, df, counts, i) ==
    IF i > Len(df) THEN level
    ELSE TouchedLevel(TouchBar(level, df[i], counts[i]), df, counts, i + 1)

ScorerInit ==
    /\ qpc = "start"
    /\ qdf \in ScorerSeries
    /\ \E counts \in [1..Len(qdf) -> TouchCounts], level_type \in {"support", "resistance"} :
          qlevel = TouchedLevel(Level(RInt(qdf[1].Low), level_type, 1), qdf, counts, 1)
    /\ qcall = <<>>
    /\ ConsIdle /\ PivotIdle /\ PipeIdle /\ DetIdle /\ NearIdle
    /\ ClusIdle /\ StatsIdle /\ MainIdle /\ AliasIdle

\* level.strength_score = calculate_level_strength_score(level, df)
ScoreLevel ==
    /\ qpc = "start"
    /\ qcall' = ScoreCall(qlevel, qdf)
    /\ qpc' = "done"
    /\ UNCHANGED <<qdf, qlevel, consVars, pivotVars, pipeVars, detVars, nearVars,
                   clusVars, statsVars, mainVars, aliasVars>>

ScorerNext == ScoreLevel

SpecScorer == ScorerInit /\ [][ScorerNext]_vars

\* the weights of the five factors: touches, recency, bounce quality,
\* volume confirmation, age span
FactorWeights == << <<3, 10>>, <<1, 5>>, <<1, 4>>, <<3, 20>>, <<1, 10>> >>

----------------------------------------------------------------------------
(* Statistics harness: SOFRAnalyzer._calculate_statistics on the selected   *)
(* Levels of both sides                                                     *)

MaxSelected == 2    \* longest list of selected Levels of one side

None == <<0, 0>>    \* Python's None in a field that otherwise holds a number

\* strictly increasing lists of up to MaxSelected prices
PriceLists ==
    UNION { { l \in [1..n -> 1..MaxPrice] : \A i \in 1..(n - 1) : l[i] < l[i + 1] } :
              n \in 0..MaxSelected }

\* the Levels _merge_levels returns at the given prices, before any touch
LevelsOf(prices, level_type) ==
    [i \in 1..Len(prices) |-> Level(RInt(prices[i]), level_type, 1)]

\* nearest_supports is sorted by price descending, nearest_resistances
\* ascending
StatsInit ==
    /\ tpc = "start"
    /\ \E low \in PriceLists, high \in PriceLists :
          /\ tsupports = Reverse(LevelsOf(low, "support"))
          /\ tresistances = LevelsOf(high, "resistance")
    /\ tcurrent_price \in 1..MaxPrice
    /\ stats = <<>>
    /\ ConsIdle /\ PivotIdle /\ PipeIdle /\ DetIdle /\ NearIdle
    /\ ClusIdle /\ MainIdle /\ ScorerIdle /\ AliasIdle

\* mutant: a support priced at the current price counts as below it
SupportsBelowInclusive(supports, current_price) ==
    SelectSeq(supports, LAMBDA l : RLe(l.price, RInt(current_price)))

\* [s for s in supports if s.price < current_price]
SupportsBelow(supports, current_price) ==
    SelectSeq(supports, LAMBDA l : RLt(l.price, RInt(current_price)))

\* [r for r in resistances if r.price > current_price]
ResistancesAbove(resistances, current_price) ==
    SelectSeq(resistances, LAMBDA l : RLt(RInt(current_price), l.price))

\* max(levels, key=lambda x: x.price).price
MaxLevelPrice(levels) ==
    CHOOSE p \in { levels[k].price : k \in 1..Len(levels) } :
        \A k \in 1..Len(levels) : RLe(levels[k].price, p)

\* min(levels, key=lambda x: x.price).price
MinLevelPrice(levels) ==
    CHOOSE p \in { levels[k].price : k \in 1..Len(levels) } :
        \A k \in 1..Len(levels) : RLe(p, levels[k].price)

\* the dict _calculate_statistics returns ('atr' copies a column of the
\* series that no Level depends on)
_calculate_statistics(current_price, supports, resistances) ==
    LET supports_below == SupportsBelow(supports, current_price)
        resistances_above == ResistancesAbove(resistances, current_price)
        nearest_support ==
            IF supports_below # <<>> THEN MaxLevelPrice(supports_below) ELSE None
        nearest_resistance ==
            IF resistances_above # <<>> THEN MinLevelPrice(resistances_above) ELSE None
        support_distance ==
            IF nearest_support # None THEN RSub(RInt(current_price), nearest_support)
            ELSE None
        resistance_distance ==
            IF nearest_resistance # None THEN RSub(nearest_resistance, RInt(current_price))
            ELSE None
        both == nearest_support # None /\ nearest_resistance # None
        trading_range ==
            IF both THEN RSub(nearest_resistance, nearest_support) ELSE None
        pct(distance) ==
            IF distance # None /\ distance # RInt(0)
            THEN RMul(RDiv(distance, RInt(current_price)), RInt(100))
            ELSE None
    IN  [current_price |-> RInt(current_price),
         nearest_support |-> nearest_support,
         nearest_resistance |-> nearest_resistance,
         support_distance |-> support_distance,
         resistance_distance |-> resistance_distance,
         support_distance_pct |-> pct(support_distance),
         resistance_distance_pct |-> pct(resistance_distance),
         trading_range |-> trading_range,
         position_in_range |->
             IF both THEN RDiv(RSub(RInt(current_price), nearest_support), trading_range)
             ELSE None,
         total_support_levels |-> Len(supports),
         total_resistance_levels |-> Len(resistances)]

\* 'statistics': self._calculate_statistics(df, nearest_supports, nearest_resistances)
CalculateStatistics ==
    /\ tpc = "start"
    /\ stats' = _calculate_statistics(tcurrent_price, tsupports, tresistances)
    /\ tpc' = "done"
    /\ UNCHANGED <<tsupports, tresistances, tcurrent_price, consVars, pivotVars,
                   pipeVars, detVars, nearVars, clusVars, mainVars, scorerVars, aliasVars>>

StatsNext == CalculateStatistics

SpecStats == StatsInit /\ [][StatsNext]_vars

\* the prices of the Levels of a list that satisfy a test against the
\* current price
PricesWhere(levels, Test(_)) ==
    { levels[k].price : k \in { i \in 1..Len(levels) : Test(levels[i].price) } }

\* C29: nearest_support is the highest price among the selected supports
\* strictly below the current price and nearest_resistance the lowest
\* price among the selected resistances strictly above it, each None when
\* there is no such Level; when both are defined, trading_range is strictly
\* positive and position_in_range, (current_price - nearest_support) /
\* trading_range, is strictly between 0 and 1.
C29_NearestAndRange ==
    tpc = "done" =>
        LET cur == RInt(tcurrent_price)
            below == PricesWhere(tsupports, LAMBDA p : RLt(p, cur))
            above == PricesWhere(tresistances, LAMBDA p : RLt(cur, p))
        IN  /\ below = {} => stats.nearest_support = None
            /\ below # {} => /\ stats.nearest_support \in below
                             /\ \A p \in below : RLe(p, stats.nearest_support)
            /\ above = {} => stats.nearest_resistance = None
            /\ above # {} => /\ stats.nearest_resistance \in above
                             /\ \A p \in above : RLe(stats.nearest_resistance, p)
            /\ (below # {} /\ above # {}) =>
                  /\ stats.trading_range # None
                  /\ stats.position_in_range # None
                  /\ RLt(RInt(0), stats.trading_range)
                  /\ RLt(RInt(0), stats.position_in_range)
                  /\ RLt(stats.position_in_range, RInt(1))
                  /\ RMul(stats.position_in_range, stats.trading_range)
                        = RSub(cur, stats.nearest_support)

\* both sides are defined although a selected support sits at the current
\* price and a selected resistance below it: neither is the nearest one
C29_Witness ==
    /\ tpc = "done"
    /\ stats.nearest_support # None
    /\ stats.nearest_resistance # None
    /\ stats.position_in_range # None
    /\ \E k \in 1..Len(tsupports) : tsupports[k].price = RInt(tcurrent_price)
    /\ \E k \in 1..Len(tresistances) : RLt(tresistances[k].price, RInt(tcurrent_price))

----------------------------------------------------------------------------
(* Main harness: the per-contract loop of main and the comparison chart     *)

MaxContracts == 3   \* longest contract list

ContractNames == {"MAR26", "JUN26", "SEP26"}

\* args.contract (nargs='+') or config.get('contracts', [...])
ContractLists == UNION { [1..n -> ContractNames] : n \in 0..MaxContracts }

\* what one pass through the try block does: analyze_contract raises, or
\* it returns and print_analysis_report or a chart call raises, or nothing
\* raises
Outcomes == {"analysis_raises", "report_raises", "chart_raises", "ok"}

MainInit ==
    /\ mpc = 1
    /\ contracts \in ContractLists
    /\ args \in [compare : BOOLEAN, no_chart : BOOLEAN, export : BOOLEAN]
    /\ results_dict = {}
    /\ analyzed = <<>>
    /\ reported = <<>>
    /\ compared = FALSE
    /\ ConsIdle /\ PivotIdle /\ PipeIdle /\ DetIdle /\ NearIdle
    /\ ClusIdle /\ StatsIdle /\ ScorerIdle /\ AliasIdle

\* mutant: an exception ends the loop
NextContractStopsOnError(i, outcome) ==
    IF outcome = "ok" THEN i + 1 ELSE Len(contracts) + 1

\* "except Exception as e: print(...)": the for loop goes on with the next
\* contract whatever the try block did
NextContract(i, outcome) == i + 1

\* one iteration of "for contract in contracts: try: ... except Exception"
AnalyzeContract ==
    /\ mpc \in 1..Len(contracts)
    /\ \E outcome \in Outcomes :
          LET contract == contracts[mpc]
              returned == outcome # "analysis_raises"
          IN  /\ analyzed' = Append(analyzed, [contract |-> contract,
                                                returned |-> returned])
              /\ results_dict' = IF returned THEN results_dict \cup {contract}
                                 ELSE results_dict
              /\ reported' = IF outcome \in {"chart_raises", "ok"}
                             THEN Append(reported, contract) ELSE reported
              /\ mpc' = NextContract(mpc, outcome)
    /\ UNCHANGED <<contracts, args, compared, consVars, pivotVars, pipeVars,
                   detVars, nearVars, clusVars, statsVars, scorerVars,
                   aliasVars>>

\* "if args.compare and len(results_dict) > 1 and not args.no_chart:"
ComparisonWanted(flags, results) ==
    flags.compare /\ Cardinality(results) > 1 /\ ~flags.no_chart

\* the statements after the loop
CompareContracts ==
    /\ mpc = Len(contracts) + 1
    /\ compared' = ComparisonWanted(args, results_dict)
    /\ mpc' = mpc + 1
    /\ UNCHANGED <<contracts, args, results_dict, analyzed, reported, consVars,
                   pivotVars, pipeVars, detVars, nearVars, clusVars, statsVars,
                   scorerVars, aliasVars>>

MainNext == AnalyzeContract \/ CompareContracts

SpecMain == MainInit /\ [][MainNext]_vars

\* the contracts whose analysis returned so far
ReturnedContracts ==
    { analyzed[k].contract : k \in { i \in 1..Len(analyzed) : analyzed[i].returned } }

\* C30: whatever raised inside the try block, the loop hands the contracts
\* to analyze_contract one after the other in list order and reaches the
\* end of the list; results_dict holds exactly the contracts whose analysis
\* returned; the comparison chart is produced only after the loop, with
\* --compare set, --no-chart not set and more than one contract in
\* results_dict.
C30_LoopSurvivesErrors ==
    mpc # 0 =>
        /\ Len(analyzed) = (IF mpc <= Len(contracts) THEN mpc - 1 ELSE Len(contracts))
        /\ \A k \in 1..Len(analyzed) : analyzed[k].contract = contracts[k]
        /\ results_dict = ReturnedContracts
        /\ compared => /\ mpc = Len(contracts) + 2
                       /\ args.compare
                       /\ ~args.no_chart
                       /\ Cardinality(ReturnedContracts) > 1

\* the analysis of a contract raised, a later contract was still analyzed,
\* and the comparison chart was produced from the two that returned
C30_Witness ==
    /\ mpc = Len(contracts) + 2
    /\ Len(contracts) = MaxContracts
    /\ compared
    /\ \E i, j \in 1..Len(analyzed) :
          /\ i < j
          /\ ~analyzed[i].returned
          /\ analyzed[j].returned
    /\ \E k \in 1..Len(analyzed) :
          analyzed[k].returned /\ analyzed[k].contract \notin PosSet(reported)

----------------------------------------------------------------------------
(* Object harness: _consolidate_levels on Level objects and touch dicts     *)
(* that have an identity. An object id is a position in the heap; a Level   *)
(* object holds the ids of its touch dicts.                                  *)

\* {'date': date, 'price': touch_price}
TouchObject(date, touch_price) == [cls |-> "dict", date |-> date, price |-> touch_price]

\* Level(price, level_type, strength)
LevelObject(price, level_type, strength) ==
    [cls |-> "Level", price |-> price, type |-> level_type, strength |-> strength,
     touches |-> <<>>, last_test |-> NoDate]

\* Level.add_touch(date, touch_price) on the object `id`: a new dict is
\* appended to its touches
add_touch_object(heap, id, date, touch_price) ==
    LET h == Append(heap, TouchObject(date, touch_price))
        t == Append(heap[id].touches, Len(h))
    IN  [h EXCEPT ![id].touches = t, ![id].strength = Len(t), ![id].last_test = date]

\* mutant: the dict of the candidate itself is appended to the merged Level
CopyTouchShared(heap, merged, touch) ==
    LET t == Append(heap[merged].touches, touch)
    IN  [heap EXCEPT ![merged].touches = t, ![merged].strength = Len(t),
                     ![merged].last_test = heap[touch].date]

\* merged.add_touch(touch['date'], touch['price'])
CopyTouch(heap, merged, touch) ==
    add_touch_object(heap, merged, heap[touch].date, heap[touch].price)

RECURSIVE CopyTouches(_, _, _)
\* "for touch in level.touches: ..."
CopyTouches(heap, merged, touches) ==
    IF touches = <<>> THEN heap
    ELSE CopyTouches(CopyTouch(heap, merged, Head(touches)), merged, Tail(touches))

RECURSIVE CopyLevels(_, _, _)
\* "for level in levels: ..."
CopyLevels(heap, merged, levels) ==
    IF levels = <<>> THEN heap
    ELSE CopyLevels(CopyTouches(heap, merged, heap[Head(levels)].touches),
                    merged, Tail(levels))

\* the objects a list of ids refers to
Deref(heap, ids) == [i \in 1..Len(ids) |-> heap[ids[i]]]

\* _merge_levels(levels, level_type): <<heap afterwards, id of merged>>
merge_level_objects(heap, levels, level_type) ==
    LET h == Append(heap, LevelObject(WeightedPrice(Deref(heap, levels)), level_type, 1))
    IN  <<CopyLevels(h, Len(h), levels), Len(h)>>

RECURSIVE InsertObjectByPrice(_, _, _)
InsertObjectByPrice(heap, sorted, id) ==
    IF sorted = <<>> THEN <<id>>
    ELSE IF RLe(heap[Head(sorted)].price, heap[id].price)
         THEN <<Head(sorted)>> \o InsertObjectByPrice(heap, Tail(sorted), id)
         ELSE <<id>> \o sorted

RECURSIVE SortedObjectsByPrice(_, _)
\* sorted(levels, key=lambda x: x.price): a new list of the same objects
SortedObjectsByPrice(heap, levels) ==
    IF levels = <<>> THEN <<>>
    ELSE InsertObjectByPrice(heap,
                             SortedObjectsByPrice(heap, SubSeq(levels, 1, Len(levels) - 1)),
                             levels[Len(levels)])

RECURSIVE ConsolidateObjectLoop(_, _, _, _, _, _)
\* the loop "for level in sorted_levels[1:]" and the final group:
\* <<heap afterwards, consolidated>>
ConsolidateObjectLoop(heap, rest, current_group, consolidated, level_type, tol) ==
    IF rest = <<>>
    THEN LET m == merge_level_objects(heap, current_group, level_type)
         IN  <<m[1], Append(consolidated, m[2])>>
    ELSE IF CloseToGroup(heap[Head(rest)], Deref(heap, current_group), tol)
         THEN ConsolidateObjectLoop(heap, Tail(rest), Append(current_group, Head(rest)),
                                    consolidated, level_type, tol)
         ELSE LET m == merge_level_objects(heap, current_group, level_type)
              IN  ConsolidateObjectLoop(m[1], Tail(rest), <<Head(rest)>>,
                                        Append(consolidated, m[2]), level_type, tol)

\* _consolidate_levels(levels, level_type): <<heap afterwards, returned list>>
consolidate_level_objects(heap, levels, level_type, tol) ==
    IF levels = <<>> THEN <<heap, <<>>>>
    ELSE LET sorted_levels == SortedObjectsByPrice(heap, levels)
         IN  ConsolidateObjectLoop(heap, Tail(sorted_levels), <<Head(sorted_levels)>>,
                                   <<>>, level_type, tol)

\* the heap after a candidate is built: its touch dicts, then the Level
AllocLevel(heap, level) ==
    LET n == Len(level.touches)
    IN  heap
        \o [k \in 1..n |-> TouchObject(level.touches[k].date, level.touches[k].price)]
        \o <<[LevelObject(level.price, level.type, level.strength)
                 EXCEPT !.touches = [k \in 1..n |-> Len(heap) + k],
                        !.last_test = level.last_test]>>

RECURSIVE AllocLevels(_, _)
AllocLevels(heap, levels) ==
    IF levels = <<>> THEN heap
    ELSE AllocLevels(AllocLevel(heap, Head(levels)), Tail(levels))

\* the ids of the Level objects of a heap, in allocation order
LevelIds(heap) == SetToSortedSeq({ id \in 1..Len(heap) : heap[id].cls = "Level" })

AliasInit ==
    /\ apc = "start"
    /\ \E spec \in AscendingLists, rev \in BOOLEAN, tol \in 1..MaxTol :
          LET candidates == IF rev THEN Reverse(MkCandidates(spec))
                            ELSE MkCandidates(spec)
          IN  /\ aheap = AllocLevels(<<>>, candidates)
              /\ alevels = LevelIds(aheap)
              /\ ainput = [heap |-> aheap, levels |-> alevels, tol |-> tol]
    /\ aout = <<>>
    /\ ConsIdle /\ PivotIdle /\ PipeIdle /\ DetIdle /\ NearIdle
    /\ ClusIdle /\ StatsIdle /\ MainIdle /\ ScorerIdle

\* consolidated_supports = self._consolidate_levels(all_supports, 'support')
ConsolidateObjects ==
    /\ apc = "start"
    /\ LET r == consolidate_level_objects(aheap, alevels, "support", ainput.tol)
       IN  aheap' = r[1] /\ aout' = r[2]
    /\ apc' = "done"
    /\ UNCHANGED <<alevels, ainput, consVars, pivotVars, pipeVars, detVars, nearVars,
                   clusVars, statsVars, mainVars, scorerVars>>

AliasNext == ConsolidateObjects

SpecAlias == AliasInit /\ [][AliasNext]_vars

\* the ids of the touch dicts of the Levels of a list
TouchIdsOf(heap, levels) ==
    UNION { { heap[levels[i]].touches[k] : k \in 1..Len(heap[levels[i]].touches) } :
              i \in 1..Len(levels) }

\* C27: after _consolidate_levels every candidate Level and every touch
\* dict that existed before the call is as it was (price, type, strength,
\* touch list), the list handed in has the same order, and no touch dict of
\* a returned Level is a touch dict of a candidate or of another returned
\* Level.
C27_InputsNotMutated ==
    apc = "done" =>
        /\ alevels = ainput.levels
        /\ \A id \in 1..Len(ainput.heap) : aheap[id] = ainput.heap[id]
        /\ PosSet(aout) \cap PosSet(alevels) = {}
        /\ TouchIdsOf(aheap, aout) \cap TouchIdsOf(aheap, alevels) = {}
        /\ \A i, j \in 1..Len(aout) :
              i # j => TouchIdsOf(aheap, <<aout[i]>>) \cap TouchIdsOf(aheap, <<aout[j]>>) = {}

\* candidates handed in by descending price were merged into fewer Levels,
\* and a returned Level holds a copy of a candidate's touch
C27_Witness ==
    /\ apc = "done"
    /\ Len(alevels) > Len(aout)
    /\ \E i \in 1..(Len(alevels) - 1) :
          RLt(aheap[alevels[i + 1]].price, aheap[alevels[i]].price)
    /\ \E t \in TouchIdsOf(aheap, aout), c \in TouchIdsOf(aheap, alevels) :
          t # c /\ aheap[t] = aheap[c]

====
